---- MODULE Spec2Model ----
(***************************************************************************)
(* Portainer-Tailscale deployment action.                                  *)
(*                                                                         *)
(* Part 1: the stack reconciler (portainer/stacks.ts) talking to the       *)
(*         remote orchestration API over the four client verbs.            *)
(* Part 2: the backoff retrier (utils/retry.ts).                           *)
(* Part 3: the main run (main.ts) and the post step (post.ts, cleanup.ts), *)
(*         with the inputs getConfig reads and the process-wide TLS flag.  *)
(* Part 4: the endpoint resolver (portainer/endpoints.ts).                 *)
(* Part 5: the registry configurator (portainer/registries.ts).            *)
(* Part 6: the env-var parser (utils/env-parser.ts).                       *)
(* Part 7: the auth provider (tailscale/auth.ts).                          *)
(* Part 8: the network connector (tailscale/connect.ts), on the retrier.   *)
(***************************************************************************)
EXTENDS Integers, Sequences, FiniteSets, TLC

\* ------------------------------------------------------------------ bounds
\* The remote assigns stack ids 1..MaxStackId; no create succeeds beyond it.
MaxStackId == 3
\* Stacks present on the remote before the first call carry ids 1..MaxInitStacks.
MaxInitStacks == 1
\* Completed calls kept in the call log.
MaxCalls == 3
\* Endpoints the remote holds, with ids 1..MaxEndpoints.
MaxEndpoints == 3
\* Registries present on the remote before the first ensureRegistry call.
MaxInitRegistries == 1
\* ensureRegistry calls made in succession.
MaxRegistryCalls == 3
\* Lines of an env_vars input.
MaxEnvLines == 3

\* ------------------------------------------------------------ value spaces
\* Two names that differ only in case: Name comparison is ===.
Names == {"app", "App"}
\* Two endpoints, so that a name can exist on the other one.
Endpoints == {1, 2}
SeqRuns == {1}

\* PortainerStack, reduced to the fields the reconciler reads.
StackIds == 1..MaxStackId
PortainerStack == [Id : StackIds, Name : Names, EndpointId : Endpoints]
\* `null` of findStackByName.
NoStack == [Id |-> 0, Name |-> "", EndpointId |-> 0]
\* DeployResult before a call has produced one.
NoResult == [stackId |-> -1, status |-> "none"]

VARIABLES
    stacks,     \* remote: the set of stacks the orchestration API holds
    nextId,     \* remote: the id the next created stack receives
    initial,    \* the remote stacks at the start (never changes)
    call,       \* per run: the deployStack / removeStack call in progress
    results,    \* log of the calls that returned, oldest first
    \* --- retry(fn, options)
    opts,       \* the merged RetryOptions of the activation
    rpc,        \* where the activation stands
    attempt,    \* the loop variable
    delay,      \* the local `delay`, in 1/Scale ms
    lastError,  \* the local `lastError`
    fnLog,      \* what fn() did, one entry per invocation
    observed,   \* the onRetry calls, in order
    slept,      \* the sleep(ms) calls, in order, in 1/Scale ms
    outcome,    \* what retry returned or threw
    \* --- run() of the main step, post() of the post step
    cfg,        \* the ActionConfig fields the reconcile stage reads
    mainPc,     \* the stage run() is at
    savedState, \* core.saveState / core.getState of 'tailscale_connected'
    execLog,    \* the `tailscale up|down|logout` invocations and how each ended
    setFailedCalls, \* number of core.setFailed calls
    outputs,    \* the core.setOutput calls, in order
    postPc,     \* where post() / disconnectTailscale() stands
    warnings,   \* number of core.warning calls made by disconnectTailscale
    failedAt,   \* the stage run() was at when its catch block ran
    failedMessage, \* the message handed to core.setFailed
    \* --- the host of the job: inputs and process environment
    inputs,     \* the `with:` inputs getConfig read
    tlsEnv0,    \* NODE_TLS_REJECT_UNAUTHORIZED when the main step started
    tlsEnv,     \* NODE_TLS_REJECT_UNAUTHORIZED now
    originalTlsReject, \* the local of waitForPortainerReachable
    probe,      \* how waitForPortainerReachable ended
    \* --- resolveEndpointId
    endpoints,  \* remote: the body GET /api/endpoints answers with
    epPc,       \* where resolveEndpointId stands
    providedId, \* its argument
    epGets,     \* number of GET /api/endpoints requests sent
    resolved,   \* the id it returned
    epError,    \* the error it threw
    \* --- ensureRegistry
    registries, \* remote: the set of registries the orchestration API holds
    regInitial, \* the remote registries at the start (never changes)
    regNextId,  \* remote: the id the next created registry receives
    regCall,    \* the ensureRegistry call in progress
    regResults, \* log of the calls that ended, oldest first
    \* --- parseEnvVars
    envLinesIn, \* the lines the input text was written with
    envInput,   \* the argument: the text, lines joined by newlines
    envPc,      \* whether parseEnvVars has been called
    envOut,     \* what it returned or threw
    \* --- getAuthKey
    authCfg,    \* the TailscaleAuthConfig argument
    authPc,     \* where getAuthKey stands
    authReqs,   \* the HTTP requests sent, in order
    accessToken, \* the local accessToken
    authOut,    \* the key getAuthKey returned
    secrets,    \* the values passed to core.setSecret
    authError,  \* the error getAuthKey threw: the request and its status
    authStatuses, \* the status codes of the responses received, in order
    authLog,    \* what the three functions of auth.ts did with secrets, in order
    \* --- connectTailscale
    connCfg,    \* the ConnectConfig argument: connectTimeout, tlsSkipVerify
    connPc,     \* where connectTailscale stands
    connLog,    \* the commands run and the probes sent, in order
    reports,    \* what each `tailscale status --json` produced, in order
    probes,     \* how each GET /api/status ended, in order
    connError,  \* the message of the error connectTailscale threw
    \* --- PortainerClient
    clientPc,   \* where the client method stands
    clientReq,  \* the method called
    clientResp, \* the response received: its raw status code and its body
    clientOut,  \* what the method returned or threw
    bodyRead    \* whether response.readBody() was called

stackVars == <<stacks, nextId, initial, call, results>>
retryVars == <<opts, rpc, attempt, delay, lastError, fnLog, observed, slept, outcome>>
runVars == <<cfg, mainPc, savedState, execLog, setFailedCalls, outputs, postPc, warnings, failedAt,
             failedMessage>>
tlsVars == <<tlsEnv, originalTlsReject, probe>>
hostVars == <<inputs, tlsEnv0, tlsVars>>
endpointVars == <<endpoints, epPc, providedId, epGets, resolved, epError>>
\* The parts run() never enters.
registryVars == <<registries, regInitial, regNextId, regCall, regResults>>
envParserVars == <<envLinesIn, envInput, envPc, envOut>>
authVars == <<authCfg, authPc, authReqs, accessToken, authOut, secrets, authError,
              authStatuses, authLog>>
connVars == <<connCfg, connPc, connLog, reports, probes, connError>>
clientVars == <<clientPc, clientReq, clientResp, clientOut, bodyRead>>
sideVars == <<endpointVars, registryVars, envParserVars, authVars, connVars, clientVars>>
nonClientVars ==
    <<stackVars, retryVars, runVars, hostVars, endpointVars, registryVars, envParserVars,
      authVars, connVars>>
vars == <<stackVars, retryVars, runVars, hostVars, sideVars>>
nonStackVars == <<retryVars, runVars, hostVars, sideVars>>
nonRetryVars == <<stackVars, runVars, hostVars, sideVars>>
nonEndpointVars ==
    <<stackVars, retryVars, runVars, hostVars, registryVars, envParserVars, authVars, connVars,
      clientVars>>
nonRegistryVars ==
    <<stackVars, retryVars, runVars, hostVars, endpointVars, envParserVars, authVars, connVars,
      clientVars>>
nonEnvParserVars ==
    <<stackVars, retryVars, runVars, hostVars, endpointVars, registryVars, authVars, connVars,
      clientVars>>
nonAuthVars ==
    <<stackVars, retryVars, runVars, hostVars, endpointVars, registryVars, envParserVars, connVars,
      clientVars>>
\* What connectTailscale leaves alone: all but the retrier and the TLS flag.
nonConnectVars ==
    <<stackVars, runVars, inputs, tlsEnv0, probe, endpointVars, registryVars, envParserVars,
      authVars, clientVars>>
\* What a step of run() or post() that touches neither the remote nor the
\* host leaves alone.
runFrame == <<stackVars, retryVars, hostVars, sideVars>>

\* =================================================================== Part 1
\* deployStack / removeStack: portainer/stacks.ts

\* --------------------------------------------------------------- helpers
Min(S) == CHOOSE x \in S : \A y \in S : x <= y

\* All orderings of a finite set, as sequences.
Perms(S) ==
    {f \in [1..Cardinality(S) -> S] : \A i, j \in 1..Cardinality(S) : f[i] = f[j] => i = j}

\* The predicate of stacks.find in findStackByName.
MatchesNameOnly(s, name, endpointId) == s.Name = name
\* s.Name === name && s.EndpointId === endpointId
Matches(s, name, endpointId) == s.Name = name /\ s.EndpointId = endpointId

FindStackNever(listing, name, endpointId) == NoStack
\* findStackByName on a listing already fetched: first match, or null.
FindStackByName(listing, name, endpointId) ==
    LET idx == {i \in 1..Len(listing) : Matches(listing[i], name, endpointId)}
    IN  IF idx = {} THEN NoStack ELSE listing[Min(idx)]

\* Remote: responses GET /api/stacks?filters={"EndpointId":e} may give.  The
\* stacks of endpoint e are always listed; the remote may list others too
\* (the filter is the remote's business), in any order.
Listings(e) ==
    UNION {Perms(L) : L \in {M \in SUBSET stacks :
                                {s \in stacks : s.EndpointId = e} \subseteq M}}

IdleCall == [pc |-> "idle", op |-> "none", endpointId |-> 0, name |-> "",
             listing |-> <<>>, existing |-> NoStack, reqs |-> <<>>,
             result |-> NoResult]

\* One mutating request, as the client sends it.
Req(method, id, endpointId) == [method |-> method, id |-> id, endpointId |-> endpointId]

InFlight(r) == call[r].pc \in {"list", "update", "create", "delete"}

LogEntry(c, result, reqs) ==
    [op |-> c.op, endpointId |-> c.endpointId, name |-> c.name,
     stackId |-> result.stackId, status |-> result.status, reqs |-> reqs]

\* ------------------------------------------------------------------ Init
InitStacks ==
    {S \in SUBSET {s \in PortainerStack : s.Id <= MaxInitStacks} :
        \A s, t \in S : (s.Id = t.Id \/ (s.Name = t.Name /\ s.EndpointId = t.EndpointId)) => s = t}

StackInit ==
    /\ stacks \in InitStacks
    /\ initial = stacks
    /\ nextId = MaxInitStacks + 1
    /\ call = [r \in SeqRuns |-> IdleCall]
    /\ results = <<>>

\* --------------------------------------------------------------- actions
\* deployStack(client, endpointId, stackName, ...) is entered; its first
\* await is the GET of findStackByName -> listStacks.
DeployStackCall(r, e, n) ==
    /\ ~InFlight(r)
    /\ Len(results) < MaxCalls
    /\ call' = [call EXCEPT ![r] = [IdleCall EXCEPT !.pc = "list", !.op = "deploy",
                                                    !.endpointId = e, !.name = n]]
    /\ UNCHANGED <<stacks, nextId, initial, results>>

\* removeStack(client, endpointId, stackName) is entered.
RemoveStackCall(r, e, n) ==
    /\ ~InFlight(r)
    /\ Len(results) < MaxCalls
    /\ call' = [call EXCEPT ![r] = [IdleCall EXCEPT !.pc = "list", !.op = "remove",
                                                    !.endpointId = e, !.name = n]]
    /\ UNCHANGED <<stacks, nextId, initial, results>>

\* deployStack's branch on the result of findStackByName.
DeployBranchAlwaysCreate(existing) == "create"
DeployBranch(existing) == IF existing # NoStack THEN "update" ELSE "create"

\* removeStack's branch: `if (!existing) return {stackId: 0, status: 'deleted'}`.
RemoveBranchAlwaysDelete(existing) == "delete"
RemoveBranch(existing) == IF existing = NoStack THEN "done" ELSE "delete"

AbsentResult == [stackId |-> 0, status |-> "deleted"]

\* The GET returns 2xx with a listing; findStackByName picks the match and
\* the caller branches on it.  removeStack returns at once when there is none.
ListStacksOk(r) ==
    /\ call[r].pc = "list"
    /\ \E listing \in Listings(call[r].endpointId) :
         LET c == call[r]
             existing == FindStackByName(listing, c.name, c.endpointId)
             found == [c EXCEPT !.listing = listing, !.existing = existing]
         IN  IF c.op = "deploy"
             THEN /\ call' = [call EXCEPT ![r] = [found EXCEPT !.pc = DeployBranch(existing)]]
                  /\ UNCHANGED results
             ELSE IF RemoveBranch(existing) = "done"
             THEN /\ call' = [call EXCEPT ![r] = [found EXCEPT !.pc = "done",
                                                               !.result = AbsentResult]]
                  /\ results' = Append(results, LogEntry(c, AbsentResult, c.reqs))
             ELSE /\ call' = [call EXCEPT ![r] = [found EXCEPT !.pc = "delete"]]
                  /\ UNCHANGED results
    /\ UNCHANGED <<stacks, nextId, initial>>

\* The GET fails (non-2xx, transport error): the error propagates.
ListStacksFail(r) ==
    /\ call[r].pc = "list"
    /\ call' = [call EXCEPT ![r].pc = "failed"]
    /\ UNCHANGED <<stacks, nextId, initial, results>>

\* What deployStack reports after updateStack resolved with `updated`.
UpdatedResult(existing, updated) == [stackId |-> updated.Id, status |-> "updated"]

\* updateStack: PUT /api/stacks/{existing.Id} is answered 2xx with the body
\* `updated`; deployStack reports the answer's Id.
UpdateStackReply(r, updated) ==
    /\ call[r].pc = "update"
    /\ LET c == call[r]
           reqs == Append(c.reqs, Req("PUT", c.existing.Id, c.endpointId))
           result == UpdatedResult(c.existing, updated)
       IN  /\ call' = [call EXCEPT ![r].pc = "done", ![r].reqs = reqs, ![r].result = result]
           /\ results' = Append(results, LogEntry(c, result, reqs))
    /\ UNCHANGED <<stacks, nextId, initial>>

\* The remote answers the PUT with the stack it holds under that id.
UpdateStackOk(r) ==
    \E updated \in {s \in stacks : s.Id = call[r].existing.Id} : UpdateStackReply(r, updated)

UpdateStackFail(r) ==
    /\ call[r].pc = "update"
    /\ call' = [call EXCEPT ![r].pc = "failed",
                            ![r].reqs = Append(@, Req("PUT", call[r].existing.Id, call[r].endpointId))]
    /\ UNCHANGED <<stacks, nextId, initial, results>>

\* createStack: POST /api/stacks/create/standalone/string?endpointId=e; the
\* remote stores a new stack under a fresh id and answers with it.
CreateStackOk(r) ==
    /\ call[r].pc = "create"
    /\ nextId <= MaxStackId
    /\ LET c == call[r]
           created == [Id |-> nextId, Name |-> c.name, EndpointId |-> c.endpointId]
           reqs == Append(c.reqs, Req("POST", 0, c.endpointId))
           result == [stackId |-> created.Id, status |-> "created"]
       IN  /\ stacks' = stacks \cup {created}
           /\ nextId' = nextId + 1
           /\ call' = [call EXCEPT ![r].pc = "done", ![r].reqs = reqs, ![r].result = result]
           /\ results' = Append(results, LogEntry(c, result, reqs))
    /\ UNCHANGED initial

CreateStackFail(r) ==
    /\ call[r].pc = "create"
    /\ call' = [call EXCEPT ![r].pc = "failed",
                            ![r].reqs = Append(@, Req("POST", 0, call[r].endpointId))]
    /\ UNCHANGED <<stacks, nextId, initial, results>>

\* removeStack reporting the id without having called deleteStack.
DeleteStackSkipped(r) ==
    /\ call[r].pc = "delete"
    /\ LET c == call[r]
           result == [stackId |-> c.existing.Id, status |-> "deleted"]
       IN  /\ call' = [call EXCEPT ![r].pc = "done", ![r].result = result]
           /\ results' = Append(results, LogEntry(c, result, c.reqs))
    /\ UNCHANGED <<stacks, nextId, initial>>

\* deleteStack: DELETE /api/stacks/{existing.Id}; removeStack reports
\* existing.Id.
DeleteStackOk(r) ==
    /\ call[r].pc = "delete"
    /\ \E s \in stacks : s.Id = call[r].existing.Id
    /\ LET c == call[r]
           reqs == Append(c.reqs, Req("DELETE", c.existing.Id, c.endpointId))
           result == [stackId |-> c.existing.Id, status |-> "deleted"]
       IN  /\ stacks' = {s \in stacks : s.Id # c.existing.Id}
           /\ call' = [call EXCEPT ![r].pc = "done", ![r].reqs = reqs, ![r].result = result]
           /\ results' = Append(results, LogEntry(c, result, reqs))
    /\ UNCHANGED <<nextId, initial>>

DeleteStackFail(r) ==
    /\ call[r].pc = "delete"
    /\ call' = [call EXCEPT ![r].pc = "failed",
                            ![r].reqs = Append(@, Req("DELETE", call[r].existing.Id, call[r].endpointId))]
    /\ UNCHANGED <<stacks, nextId, initial, results>>

StackNext ==
    \E r \in DOMAIN call :
        \/ \E e \in Endpoints, n \in Names : DeployStackCall(r, e, n) /\ UNCHANGED nonStackVars
        \/ \E e \in Endpoints, n \in Names : RemoveStackCall(r, e, n) /\ UNCHANGED nonStackVars
        \/ ListStacksOk(r) /\ UNCHANGED nonStackVars
        \/ ListStacksFail(r) /\ UNCHANGED nonStackVars
        \/ UpdateStackOk(r) /\ UNCHANGED nonStackVars
        \/ UpdateStackFail(r) /\ UNCHANGED nonStackVars
        \/ CreateStackOk(r) /\ UNCHANGED nonStackVars
        \/ CreateStackFail(r) /\ UNCHANGED nonStackVars
        \/ DeleteStackOk(r) /\ UNCHANGED nonStackVars
        \/ DeleteStackFail(r) /\ UNCHANGED nonStackVars

\* Two runs whose HTTP calls interleave, against one remote that answers a
\* PUT with any body of the PortainerStack shape.
TwoRuns == {1, 2}
ConcurrentStackInit ==
    /\ stacks \in InitStacks
    /\ initial = stacks
    /\ nextId = MaxInitStacks + 1
    /\ call = [r \in TwoRuns |-> IdleCall]
    /\ results = <<>>

\* Each run calls deployStack once.
OpenStackNext ==
    \E r \in DOMAIN call :
        \/ \E e \in Endpoints, n \in Names :
               call[r].pc = "idle" /\ DeployStackCall(r, e, n) /\ UNCHANGED nonStackVars
        \/ ListStacksOk(r) /\ UNCHANGED nonStackVars
        \/ ListStacksFail(r) /\ UNCHANGED nonStackVars
        \/ \E updated \in PortainerStack : UpdateStackReply(r, updated) /\ UNCHANGED nonStackVars
        \/ UpdateStackFail(r) /\ UNCHANGED nonStackVars
        \/ CreateStackOk(r) /\ UNCHANGED nonStackVars
        \/ CreateStackFail(r) /\ UNCHANGED nonStackVars

\* =================================================================== Part 2
\* retry(fn, options): utils/retry.ts

\* ------------------------------------------------------------------ bounds
\* Largest maxAttempts tried.
MaxAttemptsBound == 4

\* Delays are kept in 1/Scale ms: a multiplier is a number of halves, so
\* after at most MaxAttemptsBound products every delay is a whole number of
\* 1/Scale ms, as exact as the floating-point value the code computes.
Scale == 2 ^ MaxAttemptsBound

\* RetryOptions tried: maxAttempts 0 and multiplier 1/2 and maxDelayMs below
\* initialDelayMs are not valid policies; they are there to show what validity
\* buys.  backoffMultiplier is counted in halves (2 = x1, 3 = x1.5, 4 = x2).
InitialDelays == {0, 100, 200}
MaxDelays == {100, 150, 1000}
MultiplierHalves == {1, 2, 3, 4}
RetryOptions ==
    [maxAttempts : 0..MaxAttemptsBound, initialDelayMs : InitialDelays,
     maxDelayMs : MaxDelays, backoffHalves : MultiplierHalves, onRetry : BOOLEAN]

ValidPolicy(o) ==
    /\ o.maxAttempts >= 1
    /\ o.initialDelayMs >= 0
    /\ o.maxDelayMs >= o.initialDelayMs
    /\ o.backoffHalves >= 2

\* What one invocation of fn can do: resolve with a value, reject with an
\* Error, reject with a value that is no Error.  Values and messages carry
\* the attempt number, so that any two invocations differ.
Resolved(n) == [kind |-> "value", of |-> n]
RejectedError(n) == [kind |-> "Error", of |-> n]
RejectedOther(n) == [kind |-> "string", of |-> n]
FnOutcomes(n) == {Resolved(n), RejectedError(n), RejectedOther(n)}

\* new Error('retry: no attempts made')
NoAttemptsError == [kind |-> "Error", of |-> 0]

\* error instanceof Error ? error : new Error(String(error))
NormalizeNothing(error) == error
Normalize(error) == IF error.kind = "Error" THEN error ELSE [kind |-> "Error", of |-> error.of]

\* The assignment to lastError in the catch block.
CaughtErrorKeepFirst(last, error) == IF last = NoAttemptsError THEN Normalize(error) ELSE last
CaughtError(last, error) == Normalize(error)

\* if (attempt === opts.maxAttempts) break;
IsLastAttemptNever(a, o) == FALSE
IsLastAttempt(a, o) == a = o.maxAttempts

\* The attempt number handed to onRetry.
ObserverAttemptZeroBased(a) == a - 1
ObserverAttempt(a) == a

Min2(x, y) == IF x <= y THEN x ELSE y

\* delay = Math.min(delay * opts.backoffMultiplier, opts.maxDelayMs)
NextDelayUncapped(d, o) == (d * o.backoffHalves) \div 2
NextDelay(d, o) == Min2((d * o.backoffHalves) \div 2, o.maxDelayMs * Scale)

RetryIdle ==
    /\ opts = [maxAttempts |-> 0, initialDelayMs |-> 0, maxDelayMs |-> 0,
               backoffHalves |-> 2, onRetry |-> FALSE]
    /\ rpc = "idle"
    /\ attempt = 0
    /\ delay = 0
    /\ lastError = NoAttemptsError
    /\ fnLog = <<>>
    /\ observed = <<>>
    /\ slept = <<>>
    /\ outcome = [kind |-> "none", of |-> 0]

\* retry(fn, options) is entered: opts merged, lastError and delay set, the
\* for loop tests attempt = 1 against maxAttempts; with no iteration at all
\* the function throws lastError at once.
RetryEnter(o) ==
    /\ opts' = o
    /\ attempt' = 1
    /\ delay' = o.initialDelayMs * Scale
    /\ lastError' = NoAttemptsError
    /\ fnLog' = <<>>
    /\ observed' = <<>>
    /\ slept' = <<>>
    /\ IF 1 <= o.maxAttempts
       THEN rpc' = "invoke" /\ outcome' = [kind |-> "none", of |-> 0]
       ELSE rpc' = "thrown" /\ outcome' = NoAttemptsError

\* One activation of retry, from rest.
RetryCall(o) == rpc = "idle" /\ RetryEnter(o)

\* `return await fn()` resolves.
RetryFnResolves ==
    /\ rpc = "invoke"
    /\ fnLog' = Append(fnLog, Resolved(attempt))
    /\ outcome' = Resolved(attempt)
    /\ rpc' = "returned"
    /\ UNCHANGED <<opts, attempt, delay, lastError, observed, slept>>

\* fn() rejects with `error`: the catch block up to the sleep, or the break
\* and the throw after the loop.
RetryFnRejects(error) ==
    /\ rpc = "invoke"
    /\ fnLog' = Append(fnLog, error)
    /\ lastError' = CaughtError(lastError, error)
    /\ IF IsLastAttempt(attempt, opts)
       THEN /\ rpc' = "thrown"
            /\ outcome' = lastError'
            /\ UNCHANGED <<observed, slept>>
       ELSE /\ observed' = IF opts.onRetry
                           THEN Append(observed, [attempt |-> ObserverAttempt(attempt),
                                                  error |-> lastError'])
                           ELSE observed
            /\ slept' = Append(slept, delay)
            /\ rpc' = "sleep"
            /\ UNCHANGED outcome
    /\ UNCHANGED <<opts, attempt, delay>>

\* sleep(delay) is over: the next delay is computed, attempt++ and the loop
\* test; the loop is left (and lastError thrown) when the test fails.
RetrySleepDone ==
    /\ rpc = "sleep"
    /\ delay' = NextDelay(delay, opts)
    /\ attempt' = attempt + 1
    /\ IF attempt' <= opts.maxAttempts
       THEN rpc' = "invoke" /\ UNCHANGED outcome
       ELSE rpc' = "thrown" /\ outcome' = lastError
    /\ UNCHANGED <<opts, lastError, fnLog, observed, slept>>

RetryNext ==
    \/ \E o \in RetryOptions : RetryCall(o) /\ UNCHANGED nonRetryVars
    \/ RetryFnResolves /\ UNCHANGED nonRetryVars
    \/ \E error \in FnOutcomes(attempt) \ {Resolved(attempt)} :
           RetryFnRejects(error) /\ UNCHANGED nonRetryVars
    \/ RetrySleepDone /\ UNCHANGED nonRetryVars

\* =================================================================== Part 6
\* parseEnvVars(input): utils/env-parser.ts.  Strings are sequences of
\* one-character strings.

Whitespace == {" ", "\n"}

RECURSIVE TrimStart(_)
TrimStart(str) == IF str # <<>> /\ str[1] \in Whitespace THEN TrimStart(Tail(str)) ELSE str
RECURSIVE TrimEnd(_)
TrimEnd(str) ==
    IF str # <<>> /\ str[Len(str)] \in Whitespace
    THEN TrimEnd(SubSeq(str, 1, Len(str) - 1))
    ELSE str
\* String.prototype.trim
Trim(str) == TrimEnd(TrimStart(str))

\* String.prototype.indexOf for one character: 0-based, -1 when absent.
IndexOf(str, ch) ==
    LET hits == {k \in 1..Len(str) : str[k] = ch}
    IN  IF hits = {} THEN -1 ELSE Min(hits) - 1

\* str.substring(from, to) and str.substring(from), 0-based.
Substring(str, from, to) == SubSeq(str, from + 1, to)
SubstringFrom(str, from) == SubSeq(str, from + 1, Len(str))
StartsWith(str, ch) == str # <<>> /\ str[1] = ch

\* String.prototype.split for a one-character separator.
RECURSIVE Split(_, _)
Split(str, sep) ==
    LET k == IndexOf(str, sep)
    IN  IF k = -1 THEN <<str>>
        ELSE <<Substring(str, 0, k)>> \o Split(SubstringFrom(str, k + 1), sep)

\* The text of a file from its lines.
RECURSIVE Join(_, _)
Join(ls, sep) ==
    IF ls = <<>> THEN <<>>
    ELSE IF Len(ls) = 1 THEN ls[1]
    ELSE ls[1] \o <<sep>> \o Join(Tail(ls), sep)

\* The lines an env_vars input is made of: declarations of two keys, with
\* and without blanks around the parts, with an empty value, with a second
\* `=`; a blank line, a line of blanks, a comment; a line without `=`; two
\* lines with nothing before the `=`.
EnvLines ==
    {<<"A", "=", "1">>, <<"B", "=", "2">>, <<"A", "=", "3">>,
     <<" ", "B", " ", "=", " ", "3", " ">>, <<"A", "=">>, <<"B", "=", "1", "=", "2">>,
     <<>>, <<" ">>, <<"#", "A", "=", "1">>,
     <<"A">>, <<"=", "1">>, <<" ", "=", "1">>}
EnvLineLists == UNION {[1..n -> EnvLines] : n \in 0..MaxEnvLines}

StackEnvVar(name, value) == [name |-> name, value |-> value]
Returned(result) == [kind |-> "returned", value |-> result, line |-> 0]
Thrown(kind, line) == [kind |-> kind, value |-> <<>>, line |-> line]
NotCalled == [kind |-> "none", value |-> <<>>, line |-> 0]

\* `line ${i + 1}` of the two error messages
ErrorLineZeroBased(i) == i
ErrorLine(i) == i + 1

\* seen.get(key): the index, or -1 for undefined.  seen is kept as a set of
\* [key, idx] entries with one entry per key.
SeenGetNever(seen, key) == -1
SeenGet(seen, key) ==
    IF \E e \in seen : e.key = key THEN (CHOOSE e \in seen : e.key = key).idx ELSE -1
\* seen.set(key, idx)
SeenSet(seen, key, idx) == {e \in seen : e.key # key} \cup {[key |-> key, idx |-> idx]}
\* The loop over seen.entries() that shifts the indices after existingIndex.
SeenShift(seen, existingIndex) ==
    {[key |-> e.key, idx |-> IF e.idx > existingIndex THEN e.idx - 1 ELSE e.idx] : e \in seen}

\* result.splice(existingIndex, 1), 0-based.
SpliceKeep(result, existingIndex) == result
Splice(result, existingIndex) ==
    SubSeq(result, 1, existingIndex) \o SubSeq(result, existingIndex + 2, Len(result))

\* The for loop of parseEnvVars from index i on.
RECURSIVE ParseLoop(_, _, _, _)
ParseLoop(lines, i, seen, result) ==
    IF i >= Len(lines) THEN Returned(result)
    ELSE
      LET line == Trim(lines[i + 1])
          eqIndex == IndexOf(line, "=")
          key == Trim(Substring(line, 0, eqIndex))
          value == Trim(SubstringFrom(line, eqIndex + 1))
          existingIndex == SeenGet(seen, key)
          spliced == IF existingIndex # -1 THEN Splice(result, existingIndex) ELSE result
          shifted == IF existingIndex # -1 THEN SeenShift(seen, existingIndex) ELSE seen
      IN  IF line = <<>> \/ StartsWith(line, "#") THEN ParseLoop(lines, i + 1, seen, result)
          ELSE IF eqIndex = -1 THEN Thrown("Malformed env var", ErrorLine(i))
          ELSE IF key = <<>> THEN Thrown("Empty key", ErrorLine(i))
          ELSE ParseLoop(lines, i + 1, SeenSet(shifted, key, Len(spliced)),
                         Append(spliced, StackEnvVar(key, value)))

ParseEnvVars(input) ==
    IF input = <<>> \/ Trim(input) = <<>> THEN Returned(<<>>)
    ELSE ParseLoop(Split(input, "\n"), 0, {}, <<>>)

EnvParserIdle ==
    /\ envLinesIn = <<>>
    /\ envInput = <<>>
    /\ envPc = "off"
    /\ envOut = NotCalled

EnvParserInit ==
    /\ envLinesIn \in EnvLineLists
    /\ envInput = Join(envLinesIn, "\n")
    /\ envPc = "idle"
    /\ envOut = NotCalled

\* parseEnvVars(input) is called and returns or throws.
ParseEnvVarsCall ==
    /\ envPc = "idle"
    /\ envOut' = ParseEnvVars(envInput)
    /\ envPc' = "over"
    /\ UNCHANGED <<envLinesIn, envInput>>

EnvParserNext ==
    ParseEnvVarsCall /\ UNCHANGED nonEnvParserVars

\* =================================================================== Part 3
\* run() of main.ts, post() of post.ts, disconnectTailscale() of cleanup.ts

Actions == {"deploy", "delete"}
\* The env_vars texts tried: one declaration, one line without `=`.
EnvVarsInputs == {<<"A", "=", "1">>, <<"A">>}
ActionConfigs == [action : Actions, endpointId : Endpoints, stackName : Names,
                  tlsSkipVerify : BOOLEAN, envVarsRaw : EnvVarsInputs]
NoConfig == [action |-> "none", endpointId |-> 0, stackName |-> "", tlsSkipVerify |-> FALSE,
             envVarsRaw |-> <<>>]

\* process.env.NODE_TLS_REJECT_UNAUTHORIZED: undefined, or a string.
Unset == "<undefined>"
TlsValues == {Unset, "", "0", "1"}

\* What the workflow passes with `with:` ("" is an input left out;
\* registry_url, a URL in pieces, stands for the three registry inputs, given
\* together or left out together).  `rest` tells whether the inputs not listed here pass the checks of getConfig
\* (required inputs present, ts_connect_timeout positive, compose file found).
ActionInputs == {"", "deploy", "delete", "restart"}
EndpointIdInputs == {"", "0", "1", "2", "abc"}
RegistryUrlInputs == {<<>>, <<"ghcr.io">>}
HostInputs == [action : ActionInputs, endpoint_id : EndpointIdInputs, stack_name : Names,
               tls_skip_verify : {"", "true"}, registry_url : RegistryUrlInputs,
               env_vars : EnvVarsInputs, rest : BOOLEAN]
NoInputs == [action |-> "", endpoint_id |-> "", stack_name |-> "", tls_skip_verify |-> "",
             registry_url |-> <<>>, env_vars |-> <<>>, rest |-> FALSE]

\* parseInt(s, 10) on the strings of EndpointIdInputs.
ParseInt(s) ==
    CASE s = "0" -> [nan |-> FALSE, n |-> 0]
      [] s = "1" -> [nan |-> FALSE, n |-> 1]
      [] s = "2" -> [nan |-> FALSE, n |-> 2]
      [] OTHER   -> [nan |-> TRUE, n |-> 0]

\* a || b on strings
OrElse(a, b) == IF a = "" THEN b ELSE a

\* The default of endpoint_id in the table of inputs of the README.
DocumentedEndpointId == "0"
\* parseInt(core.getInput('endpoint_id') || '1', 10)
DefaultEndpointId == "1"
ConfigEndpointId(i) == ParseInt(OrElse(i.endpoint_id, DefaultEndpointId))
ConfigAction(i) == OrElse(i.action, "deploy")

\* The checks of getConfig, in the order of the code.
GetConfigThrows(i) ==
    \/ ~i.rest
    \/ ConfigAction(i) \notin Actions
    \/ ConfigEndpointId(i).nan
    \/ ConfigEndpointId(i).n < 1

\* The ActionConfig getConfig returns; no registry input is read.
GetConfig(i) ==
    [action |-> ConfigAction(i),
     endpointId |-> ConfigEndpointId(i).n,
     stackName |-> i.stack_name,
     tlsSkipVerify |-> (i.tls_skip_verify = "true"),
     envVarsRaw |-> i.env_vars]

\* How an exec.exec of the tailscale client can end: exit code 0, another
\* exit code, or a rejected promise (the binary cannot be started).
ExecResults == {"zero", "nonzero", "throw"}
Exec(cmd, res) == [cmd |-> cmd, result |-> res]

\* How the reachability probe can end: retry returns, retry throws its last
\* error once the budget is used up, or retry throws for another reason.
ProbeOutcomes == {"ok", "exhausted", "thrown"}

RunIdle ==
    /\ cfg = NoConfig
    /\ mainPc = "off"
    /\ failedAt = "none"
    /\ failedMessage = <<>>
    /\ savedState = ""
    /\ execLog = <<>>
    /\ setFailedCalls = 0
    /\ outputs = <<>>
    /\ postPc = "off"
    /\ warnings = 0
    /\ inputs = NoInputs
    /\ tlsEnv0 = Unset
    /\ tlsEnv = Unset
    /\ originalTlsReject = Unset
    /\ probe = "none"

RunInit ==
    /\ cfg = NoConfig
    /\ mainPc = "config"
    /\ failedAt = "none"
    /\ failedMessage = <<>>
    /\ savedState = ""
    /\ execLog = <<>>
    /\ setFailedCalls = 0
    /\ outputs = <<>>
    /\ postPc = "waiting"
    /\ warnings = 0
    /\ inputs = NoInputs
    /\ tlsEnv0 \in TlsValues
    /\ tlsEnv = tlsEnv0
    /\ originalTlsReject = Unset
    /\ probe = "none"

\* `Deployment failed: ${message}`; the message of an error is told by the
\* stage that threw it.
FailedMessage(stage) == <<"Deployment failed: ", stage>>

\* The catch block of run(): core.setFailed, and run() returns.
RunCatchTwice ==
    /\ mainPc' = "failed"
    /\ failedAt' = mainPc
    /\ failedMessage' = FailedMessage(mainPc)
    /\ setFailedCalls' = setFailedCalls + 2
RunCatch ==
    /\ mainPc' = "failed"
    /\ failedAt' = mainPc
    /\ failedMessage' = FailedMessage(mainPc)
    /\ setFailedCalls' = setFailedCalls + 1

\* Step 1: getConfig() returns the validated inputs, or throws.
RunGetConfig(i) ==
    /\ mainPc = "config"
    /\ inputs' = i
    /\ IF GetConfigThrows(i)
       THEN RunCatch /\ UNCHANGED cfg
       ELSE cfg' = GetConfig(i) /\ mainPc' = "auth" /\ UNCHANGED <<setFailedCalls, failedAt, failedMessage>>
    /\ UNCHANGED <<savedState, execLog, outputs, postPc, warnings>>

\* Step 2: getAuthKey(config.tailscale) returns a key, or throws.
RunGetAuthKey(ok) ==
    /\ mainPc = "auth"
    /\ IF ok
       THEN mainPc' = "up" /\ UNCHANGED <<setFailedCalls, failedAt, failedMessage>>
       ELSE RunCatch
    /\ UNCHANGED <<cfg, savedState, execLog, outputs, postPc, warnings>>

\* Step 3, connectTailscale: `sudo tailscale up ...`; anything but exit
\* code 0 throws.
RunTailscaleUp(res) ==
    /\ mainPc = "up"
    /\ execLog' = Append(execLog, Exec("up", res))
    /\ IF res = "zero"
       THEN mainPc' = "online" /\ UNCHANGED <<setFailedCalls, failedAt, failedMessage>>
       ELSE RunCatch
    /\ UNCHANGED <<cfg, savedState, outputs, postPc, warnings>>

\* connectTailscale: waitForTailscaleOnline returns, or its polling budget
\* is used up and it throws.
RunWaitOnline(ok) ==
    /\ mainPc = "online"
    /\ IF ok
       THEN mainPc' = "reachable" /\ UNCHANGED <<setFailedCalls, failedAt, failedMessage>>
       ELSE RunCatch
    /\ UNCHANGED <<cfg, savedState, execLog, outputs, postPc, warnings>>

\* waitForPortainerReachable, up to the try: the flag is read into
\* originalTlsReject and set to '0' when tlsSkipVerify.
RunProbeEnter ==
    /\ mainPc = "reachable"
    /\ originalTlsReject' = tlsEnv
    /\ tlsEnv' = IF cfg.tlsSkipVerify THEN "0" ELSE tlsEnv
    /\ mainPc' = "probing"
    /\ UNCHANGED <<cfg, failedAt, failedMessage, savedState, execLog, setFailedCalls, outputs, postPc,
                   warnings, probe>>

\* The finally block of waitForPortainerReachable: the value the flag has
\* after it, from the saved value, tlsSkipVerify and the current value.
RestoreTlsNoDelete(original, skip, current) ==
    IF original # Unset THEN original ELSE current
RestoreTls(original, skip, current) ==
    IF original # Unset THEN original
    ELSE IF skip THEN Unset
    ELSE current

\* connectTailscale: waitForPortainerReachable returns, or throws; either
\* way its finally block has run.  When it returns connectTailscale returns
\* and run() saves the state flag.
RunWaitReachable(res) ==
    /\ mainPc = "probing"
    /\ probe' = res
    /\ tlsEnv' = RestoreTls(originalTlsReject, cfg.tlsSkipVerify, tlsEnv)
    /\ IF res = "ok"
       THEN /\ mainPc' = "client"
            /\ savedState' = "true"
            /\ UNCHANGED <<setFailedCalls, failedAt, failedMessage>>
       ELSE RunCatch /\ UNCHANGED savedState
    /\ UNCHANGED <<cfg, execLog, outputs, postPc, warnings, originalTlsReject>>

\* Step 4: new PortainerClient(url, apiKey, tlsSkipVerify); the constructor
\* cannot fail, and sets the flag to '0' when tlsSkipVerify.
RunCreateClient ==
    /\ mainPc = "client"
    /\ tlsEnv' = IF cfg.tlsSkipVerify THEN "0" ELSE tlsEnv
    /\ mainPc' = "envvars"
    /\ UNCHANGED <<cfg, failedAt, failedMessage, savedState, execLog, setFailedCalls, outputs, postPc,
                   warnings, originalTlsReject, probe>>

\* Step 5: parseEnvVars(config.deployment.envVarsRaw) returns, or throws.
RunParseEnvVars ==
    /\ mainPc = "envvars"
    /\ IF ParseEnvVars(cfg.envVarsRaw).kind = "returned"
       THEN mainPc' = "reconcile" /\ UNCHANGED <<setFailedCalls, failedAt, failedMessage>>
       ELSE RunCatch
    /\ UNCHANGED <<cfg, savedState, execLog, outputs, postPc, warnings>>

\* Step 6: deployStack or removeStack is called, by config.deployment.action,
\* with config.deployment.endpointId.
RunReconcileCallSwapped ==
    /\ mainPc = "reconcile"
    /\ IF cfg.action = "deploy"
       THEN RemoveStackCall(1, cfg.endpointId, cfg.stackName)
       ELSE DeployStackCall(1, cfg.endpointId, cfg.stackName)
    /\ mainPc' = "reconciling"
    /\ UNCHANGED <<cfg, failedAt, failedMessage, savedState, execLog, setFailedCalls, outputs, postPc, warnings>>

RunReconcileCall ==
    /\ mainPc = "reconcile"
    /\ IF cfg.action = "deploy"
       THEN DeployStackCall(1, cfg.endpointId, cfg.stackName)
       ELSE RemoveStackCall(1, cfg.endpointId, cfg.stackName)
    /\ mainPc' = "reconciling"
    /\ UNCHANGED <<cfg, failedAt, failedMessage, savedState, execLog, setFailedCalls, outputs, postPc, warnings>>

\* Step 7: the call returned its DeployResult; both outputs are set.
RunSetOutputs ==
    /\ mainPc = "reconciling"
    /\ call[1].pc = "done"
    /\ outputs' = outputs \o <<[name |-> "stack_id", value |-> call[1].result.stackId],
                               [name |-> "stack_status", value |-> call[1].result.status]>>
    /\ mainPc' = "done"
    /\ UNCHANGED <<cfg, failedAt, failedMessage, savedState, execLog, setFailedCalls, postPc, warnings>>

\* The call threw: caught by run().
RunReconcileThrew ==
    /\ mainPc = "reconciling"
    /\ call[1].pc = "failed"
    /\ RunCatch
    /\ UNCHANGED <<cfg, savedState, execLog, outputs, postPc, warnings>>

MainOver == mainPc \in {"done", "failed"}

\* wasConnected !== 'true'
WasNotConnectedUnlessFailed(state) == state # "true" \/ mainPc = "failed"
WasNotConnected(state) == state # "true"

\* post(): the post step runs once the main step is over; it reads the
\* saved state and either returns or enters disconnectTailscale.
PostStart ==
    /\ MainOver
    /\ postPc = "waiting"
    /\ postPc' = IF WasNotConnected(savedState) THEN "skipped" ELSE "down"
    /\ UNCHANGED <<cfg, mainPc, failedAt, failedMessage, savedState, execLog, setFailedCalls, outputs, warnings>>

\* The catch block of disconnectTailscale: one warning, normal return.
CleanupAfterThrowUncaught == [pc |-> "thrown", warnings |-> 0, failed |-> 1]
CleanupAfterThrow == [pc |-> "done", warnings |-> 1, failed |-> 0]

\* `await exec.exec(..., {ignoreReturnCode: true})` inside the try: an exit
\* code, zero or not, is returned; only a rejected promise reaches the catch.
ExecRejectedOrNonZero(res) == res # "zero"
ExecRejected(res) == res = "throw"

\* `sudo tailscale down` with ignoreReturnCode.
CleanupDown(res) ==
    /\ postPc = "down"
    /\ execLog' = Append(execLog, Exec("down", res))
    /\ IF ExecRejected(res)
       THEN /\ postPc' = CleanupAfterThrow.pc
            /\ warnings' = warnings + CleanupAfterThrow.warnings
            /\ setFailedCalls' = setFailedCalls + CleanupAfterThrow.failed
       ELSE /\ postPc' = "logout"
            /\ warnings' = IF res = "zero" THEN warnings ELSE warnings + 1
            /\ UNCHANGED setFailedCalls
    /\ UNCHANGED <<cfg, mainPc, failedAt, failedMessage, savedState, outputs>>

\* `sudo tailscale logout` with ignoreReturnCode.
CleanupLogout(res) ==
    /\ postPc = "logout"
    /\ execLog' = Append(execLog, Exec("logout", res))
    /\ IF ExecRejected(res)
       THEN /\ postPc' = CleanupAfterThrow.pc
            /\ warnings' = warnings + CleanupAfterThrow.warnings
            /\ setFailedCalls' = setFailedCalls + CleanupAfterThrow.failed
       ELSE /\ postPc' = "done"
            /\ warnings' = IF res = "zero" THEN warnings ELSE warnings + 1
            /\ UNCHANGED setFailedCalls
    /\ UNCHANGED <<cfg, mainPc, failedAt, failedMessage, savedState, outputs>>

RunNext ==
    \/ \E i \in HostInputs : RunGetConfig(i) /\ UNCHANGED <<stackVars, retryVars, tlsEnv0, tlsVars, sideVars>>
    \/ \E ok \in BOOLEAN : RunGetAuthKey(ok) /\ UNCHANGED runFrame
    \/ \E res \in ExecResults : RunTailscaleUp(res) /\ UNCHANGED runFrame
    \/ \E ok \in BOOLEAN : RunWaitOnline(ok) /\ UNCHANGED runFrame
    \/ RunProbeEnter /\ UNCHANGED <<stackVars, retryVars, inputs, tlsEnv0, sideVars>>
    \/ \E res \in ProbeOutcomes :
           RunWaitReachable(res) /\ UNCHANGED <<stackVars, retryVars, inputs, tlsEnv0, sideVars>>
    \/ RunCreateClient /\ UNCHANGED <<stackVars, retryVars, inputs, tlsEnv0, sideVars>>
    \/ RunParseEnvVars /\ UNCHANGED runFrame
    \/ RunReconcileCall /\ UNCHANGED <<retryVars, hostVars, sideVars>>
    \/ ListStacksOk(1) /\ UNCHANGED nonStackVars
    \/ ListStacksFail(1) /\ UNCHANGED nonStackVars
    \/ UpdateStackOk(1) /\ UNCHANGED nonStackVars
    \/ UpdateStackFail(1) /\ UNCHANGED nonStackVars
    \/ CreateStackOk(1) /\ UNCHANGED nonStackVars
    \/ CreateStackFail(1) /\ UNCHANGED nonStackVars
    \/ DeleteStackOk(1) /\ UNCHANGED nonStackVars
    \/ DeleteStackFail(1) /\ UNCHANGED nonStackVars
    \/ RunSetOutputs /\ UNCHANGED runFrame
    \/ RunReconcileThrew /\ UNCHANGED runFrame
    \/ PostStart /\ UNCHANGED runFrame
    \/ \E res \in ExecResults : CleanupDown(res) /\ UNCHANGED runFrame
    \/ \E res \in ExecResults : CleanupLogout(res) /\ UNCHANGED runFrame

\* =================================================================== Part 4
\* resolveEndpointId(client, providedId): portainer/endpoints.ts

EndpointIds == 1..MaxEndpoints
EndpointNames == {"local", "prod"}
\* PortainerEndpoint, reduced to the fields resolveEndpointId reads.
PortainerEndpoint == [Id : EndpointIds, Name : EndpointNames]
\* The bodies GET /api/endpoints can answer with: every list of up to
\* MaxEndpoints endpoints with distinct ids, in every order.
EndpointLists ==
    UNION {{f \in [1..n -> PortainerEndpoint] : \A i, j \in 1..n : f[i].Id = f[j].Id => i = j}
           : n \in 0..MaxEndpoints}
\* The providedId arguments: negative, zero, positive.
ProvidedIds == {-1, 0, 1, 2}
NoEndpointError == [kind |-> "none", list |-> <<>>]

\* One line of the list in the error message: `  - ID ${e.Id}: "${e.Name}"`.
EndpointLine(e) == <<"  - ID ", e.Id, ": \"", e.Name, "\"">>
\* endpoints.map(...)
EndpointListLines(es) == [i \in 1..Len(es) |-> EndpointLine(es[i])]

EndpointsIdle ==
    /\ endpoints = <<>>
    /\ epPc = "off"
    /\ providedId = 0
    /\ epGets = 0
    /\ resolved = 0
    /\ epError = NoEndpointError

EndpointsInit ==
    /\ endpoints \in EndpointLists
    /\ epPc = "idle"
    /\ providedId = 0
    /\ epGets = 0
    /\ resolved = 0
    /\ epError = NoEndpointError

\* providedId > 0
ProvidedNever(p) == FALSE
Provided(p) == p > 0

\* resolveEndpointId is entered: a positive providedId is returned at once,
\* anything else sends GET /api/endpoints.
ResolveEndpointIdCall(p) ==
    /\ epPc = "idle"
    /\ providedId' = p
    /\ IF Provided(p)
       THEN epPc' = "done" /\ resolved' = p /\ UNCHANGED epGets
       ELSE epPc' = "get" /\ epGets' = epGets + 1 /\ UNCHANGED resolved
    /\ UNCHANGED <<endpoints, epError>>

\* What resolveEndpointId does with the list it received.
AfterListingTakeFirst(es) ==
    IF Len(es) = 0
    THEN [pc |-> "failed", resolved |-> 0, error |-> [kind |-> "no environments", list |-> <<>>]]
    ELSE [pc |-> "done", resolved |-> es[1].Id, error |-> NoEndpointError]
AfterListing(es) ==
    IF Len(es) = 0
    THEN [pc |-> "failed", resolved |-> 0, error |-> [kind |-> "no environments", list |-> <<>>]]
    ELSE IF Len(es) = 1
    THEN [pc |-> "done", resolved |-> es[1].Id, error |-> NoEndpointError]
    ELSE [pc |-> "failed", resolved |-> 0,
          error |-> [kind |-> "multiple environments", list |-> EndpointListLines(es)]]

\* client.get resolves with the endpoints of the remote.
EndpointsGetOk ==
    /\ epPc = "get"
    /\ epPc' = AfterListing(endpoints).pc
    /\ resolved' = AfterListing(endpoints).resolved
    /\ epError' = AfterListing(endpoints).error
    /\ UNCHANGED <<endpoints, providedId, epGets>>

\* client.get throws (status outside 2xx, body not JSON, no connection).
EndpointsGetFail ==
    /\ epPc = "get"
    /\ epPc' = "failed"
    /\ epError' = [kind |-> "request", list |-> <<>>]
    /\ UNCHANGED <<endpoints, providedId, epGets, resolved>>

EndpointsNext ==
    \/ \E p \in ProvidedIds : ResolveEndpointIdCall(p) /\ UNCHANGED nonEndpointVars
    \/ EndpointsGetOk /\ UNCHANGED nonEndpointVars
    \/ EndpointsGetFail /\ UNCHANGED nonEndpointVars

\* =================================================================== Part 5
\* ensureRegistry(client, registryUrl, username, password):
\* portainer/registries.ts

\* URLs are strings cut into pieces, so that `https://${registryUrl}` is a
\* string of its own, different from registryUrl.
HttpsOf(url) == <<"https://">> \o url
RegistryUrls == {<<"ghcr.io">>, HttpsOf(<<"ghcr.io">>), <<"docker.io">>}
Credentials == {[Username |-> "ci", Password |-> "t1"], [Username |-> "ci", Password |-> "t2"]}
NoCredentials == [Username |-> "", Password |-> ""]
\* The Name a registry that was not made by ensureRegistry carries.
ManualName == <<"team registry">>
\* `${registryUrl} (auto-configured by CI)`
AutoName(url) == url \o <<" (auto-configured by CI)">>
\* `undefined` of registries.find
NoRegistry == [Id |-> 0, Name |-> <<>>, URL |-> <<>>, cred |-> NoCredentials]

\* The predicate of registries.find.
RegistryMatchesNever(r, registryUrl) == FALSE
RegistryMatches(r, registryUrl) == r.URL = registryUrl \/ r.URL = HttpsOf(registryUrl)

\* registries.find(...): the first match of the listing, or undefined.
FindRegistry(listing, registryUrl) ==
    LET hits == {i \in 1..Len(listing) : RegistryMatches(listing[i], registryUrl)}
    IN  IF hits = {} THEN NoRegistry ELSE listing[Min(hits)]

\* The Name and URL of the body of a PUT or POST; NoBody before one is sent.
RegBody(name, url) == [Name |-> name, URL |-> url]
NoBody == RegBody(<<>>, <<>>)
\* `Name: existing.Name` of the PUT body.
PutNameAuto(existing, registryUrl) == AutoName(registryUrl)
PutName(existing, registryUrl) == existing.Name

IdleRegCall == [pc |-> "idle", url |-> <<>>, cred |-> NoCredentials, existing |-> NoRegistry,
                reqs |-> <<>>, body |-> NoBody]
RegReq(verb, id) == [verb |-> verb, id |-> id]

\* The registries the remote holds before the first call: up to
\* MaxInitRegistries of them, made by hand, with ids from 1.
InitRegistries ==
    UNION {{{[Id |-> i, Name |-> ManualName, URL |-> f[i], cred |-> NoCredentials] : i \in 1..n}
            : f \in [1..n -> RegistryUrls]} : n \in 0..MaxInitRegistries}

RegistriesIdle ==
    /\ registries = {}
    /\ regInitial = {}
    /\ regNextId = 1
    /\ regCall = IdleRegCall
    /\ regResults = <<>>

RegistriesInit ==
    /\ registries \in InitRegistries
    /\ regInitial = registries
    /\ regNextId = Cardinality(registries) + 1
    /\ regCall = IdleRegCall
    /\ regResults = <<>>

\* ensureRegistry is entered and sends GET /api/registries.
EnsureRegistryCall(u, c) ==
    /\ regCall.pc = "idle"
    /\ Len(regResults) < MaxRegistryCalls
    /\ regCall' = [IdleRegCall EXCEPT !.pc = "get", !.url = u, !.cred = c,
                                      !.reqs = <<RegReq("GET", 0)>>]
    /\ UNCHANGED <<registries, regInitial, regNextId, regResults>>

RegLogEntry(c, ok, id) == [url |-> c.url, cred |-> c.cred, reqs |-> c.reqs, ok |-> ok, id |-> id]

\* The listing arrives, in some order; the PUT or the POST is sent.
RegistriesGetOk ==
    /\ regCall.pc = "get"
    /\ \E listing \in Perms(registries) :
          LET existing == FindRegistry(listing, regCall.url)
          IN  regCall' = IF existing # NoRegistry
                         THEN [regCall EXCEPT !.pc = "put", !.existing = existing,
                                              !.reqs = Append(@, RegReq("PUT", existing.Id)),
                                              !.body = RegBody(PutName(existing, regCall.url),
                                                               regCall.url)]
                         ELSE [regCall EXCEPT !.pc = "post",
                                              !.reqs = Append(@, RegReq("POST", 0)),
                                              !.body = RegBody(AutoName(regCall.url),
                                                               regCall.url)]
    /\ UNCHANGED <<registries, regInitial, regNextId, regResults>>

\* client.get throws: ensureRegistry throws.
RegistriesGetFail ==
    /\ regCall.pc = "get"
    /\ regResults' = Append(regResults, RegLogEntry(regCall, FALSE, 0))
    /\ regCall' = IdleRegCall
    /\ UNCHANGED <<registries, regInitial, regNextId>>

\* PUT /api/registries/{existing.Id} succeeds: the remote stores the Name,
\* URL and credentials of the body under that id.
RegistryPutOk ==
    /\ regCall.pc = "put"
    /\ registries' = {r \in registries : r.Id # regCall.existing.Id}
                        \cup {[Id |-> regCall.existing.Id, Name |-> regCall.body.Name,
                               URL |-> regCall.body.URL, cred |-> regCall.cred]}
    /\ regResults' = Append(regResults, RegLogEntry(regCall, TRUE, regCall.existing.Id))
    /\ regCall' = IdleRegCall
    /\ UNCHANGED <<regInitial, regNextId>>

RegistryPutFail ==
    /\ regCall.pc = "put"
    /\ regResults' = Append(regResults, RegLogEntry(regCall, FALSE, 0))
    /\ regCall' = IdleRegCall
    /\ UNCHANGED <<registries, regInitial, regNextId>>

\* POST /api/registries succeeds: the remote stores a new registry under
\* the next id.
RegistryPostOk ==
    /\ regCall.pc = "post"
    /\ registries' = registries \cup {[Id |-> regNextId, Name |-> regCall.body.Name,
                                       URL |-> regCall.body.URL, cred |-> regCall.cred]}
    /\ regNextId' = regNextId + 1
    /\ regResults' = Append(regResults, RegLogEntry(regCall, TRUE, regNextId))
    /\ regCall' = IdleRegCall
    /\ UNCHANGED regInitial

RegistryPostFail ==
    /\ regCall.pc = "post"
    /\ regResults' = Append(regResults, RegLogEntry(regCall, FALSE, 0))
    /\ regCall' = IdleRegCall
    /\ UNCHANGED <<registries, regInitial, regNextId>>

RegistriesNext ==
    \/ \E u \in RegistryUrls, c \in Credentials : EnsureRegistryCall(u, c) /\ UNCHANGED nonRegistryVars
    \/ RegistriesGetOk /\ UNCHANGED nonRegistryVars
    \/ RegistriesGetFail /\ UNCHANGED nonRegistryVars
    \/ RegistryPutOk /\ UNCHANGED nonRegistryVars
    \/ RegistryPutFail /\ UNCHANGED nonRegistryVars
    \/ RegistryPostOk /\ UNCHANGED nonRegistryVars
    \/ RegistryPostFail /\ UNCHANGED nonRegistryVars

\* =================================================================== Part 7
\* getAuthKey(config): tailscale/auth.ts

\* TailscaleAuthConfig; "" is an input that was not given.
AuthConfigs == [oauthClientId : {"", "client-1"}, oauthSecret : {"", "secret-1"},
                authKey : {"", "tskey-auth-1"}, tags : {"", "tag:ci"}]
NoAuthConfig == [oauthClientId |-> "", oauthSecret |-> "", authKey |-> "", tags |-> ""]
\* response.message.statusCode || 0
StatusCodes == {0, 200, 401, 500}
AccessTokens == {"token-1", "token-2"}
IssuedKeys == {"tskey-gen-1", "tskey-gen-2"}
\* `Failed to ... (HTTP ${statusCode})`
AuthError(request, status) == [request |-> request, status |-> status]
NoAuthError == [request |-> "none", status |-> 200]

TokenRequest(c) == [to |-> "oauth/token", clientId |-> c.oauthClientId,
                    clientSecret |-> c.oauthSecret, bearer |-> "", tags |-> ""]
KeyRequest(token, c) == [to |-> "tailnet/-/keys", clientId |-> "", clientSecret |-> "",
                         bearer |-> token, tags |-> c.tags]

AuthIdle ==
    /\ authCfg = NoAuthConfig
    /\ authPc = "off"
    /\ authReqs = <<>>
    /\ accessToken = ""
    /\ authOut = ""
    /\ secrets = {}
    /\ authError = NoAuthError
    /\ authStatuses = <<>>
    /\ authLog = <<>>

AuthInit ==
    /\ authCfg \in AuthConfigs
    /\ authPc = "idle"
    /\ authReqs = <<>>
    /\ accessToken = ""
    /\ authOut = ""
    /\ secrets = {}
    /\ authError = NoAuthError
    /\ authStatuses = <<>>
    /\ authLog = <<>>

\* One step of auth.ts that handles a value: core.setSecret(value), a
\* request sent with the value as its credential, core.info, or `return value`.
AuthStep(op, by, value) == [op |-> op, by |-> by, value |-> value]

\* statusCode !== 200 throws
StatusOkNonZero(status) == status # 0
StatusOk(status) == status = 200

\* if (config.authKey)
HasAuthKeyUnlessOAuth(c) == c.authKey # "" /\ c.oauthClientId = ""
HasAuthKey(c) == c.authKey # ""

\* getAuthKey is entered: a given auth key is masked and returned; without
\* one getOAuthToken sends the token request.
GetAuthKeyCall ==
    /\ authPc = "idle"
    /\ IF HasAuthKey(authCfg)
       THEN /\ authPc' = "done"
            /\ authOut' = authCfg.authKey
            /\ secrets' = secrets \cup {authCfg.authKey}
            /\ authLog' = authLog \o <<AuthStep("setSecret", "getAuthKey", authCfg.authKey),
                                       AuthStep("return", "getAuthKey", authCfg.authKey)>>
            /\ UNCHANGED authReqs
       ELSE /\ authPc' = "token"
            /\ authReqs' = Append(authReqs, TokenRequest(authCfg))
            /\ authLog' = Append(authLog,
                                 AuthStep("send", "getOAuthToken", authCfg.oauthSecret))
            /\ UNCHANGED <<authOut, secrets>>
    /\ UNCHANGED <<authCfg, accessToken, authError, authStatuses>>

\* getOAuthToken: the token response arrives; any status but 200 throws; on
\* 200 the token is masked and generateAuthKey sends the key request.
OAuthTokenResponse(status, token) ==
    /\ authPc = "token"
    /\ authStatuses' = Append(authStatuses, status)
    /\ IF ~StatusOk(status)
       THEN /\ authPc' = "failed"
            /\ authError' = AuthError("oauth/token", status)
            /\ UNCHANGED <<authReqs, accessToken, secrets, authLog>>
       ELSE /\ authPc' = "key"
            /\ UNCHANGED authError
            /\ accessToken' = token
            /\ secrets' = secrets \cup {token}
            /\ authReqs' = Append(authReqs, KeyRequest(token, authCfg))
            /\ authLog' = authLog \o <<AuthStep("setSecret", "getOAuthToken", token),
                                       AuthStep("return", "getOAuthToken", token),
                                       AuthStep("send", "generateAuthKey", token)>>
    /\ UNCHANGED <<authCfg, authOut>>

\* generateAuthKey: the key response arrives; any status but 200 throws; on
\* 200 the key is returned, and getAuthKey masks and returns it.
TailscaleKeyResponse(status, key) ==
    /\ authPc = "key"
    /\ authStatuses' = Append(authStatuses, status)
    /\ IF ~StatusOk(status)
       THEN /\ authPc' = "failed"
            /\ authError' = AuthError("tailnet/-/keys", status)
            /\ UNCHANGED <<authOut, secrets, authLog>>
       ELSE /\ authPc' = "done"
            /\ UNCHANGED authError
            /\ authOut' = key
            /\ secrets' = secrets \cup {key}
            /\ authLog' = authLog \o <<AuthStep("info", "generateAuthKey", "expires"),
                                       AuthStep("return", "generateAuthKey", key),
                                       AuthStep("setSecret", "getAuthKey", key),
                                       AuthStep("return", "getAuthKey", key)>>
    /\ UNCHANGED <<authCfg, authReqs, accessToken>>

AuthNext ==
    \/ GetAuthKeyCall /\ UNCHANGED nonAuthVars
    \/ \E status \in StatusCodes, token \in AccessTokens :
           OAuthTokenResponse(status, token) /\ UNCHANGED nonAuthVars
    \/ \E status \in StatusCodes, key \in IssuedKeys :
           TailscaleKeyResponse(status, key) /\ UNCHANGED nonAuthVars

\* =================================================================== Part 8
\* connectTailscale(config): tailscale/connect.ts

\* ts_connect_timeout values getConfig lets through (whole seconds, >= 1).
ConnectTimeouts == {1, 2, 3, 5, 7}
ConnectConfigs == [connectTimeout : ConnectTimeouts, tlsSkipVerify : BOOLEAN]
NoConnectConfig == [connectTimeout |-> 0, tlsSkipVerify |-> FALSE]

\* Math.ceil(a / b), for a >= 0 and b >= 1.
CeilDivFloor(a, b) == a \div b
CeilDiv(a, b) == (a + b - 1) \div b

\* The options waitForTailscaleOnline hands to retry (x1.5 is 3 halves).
OnlineOptions(timeoutSeconds) ==
    [maxAttempts |-> CeilDiv(timeoutSeconds, 2), initialDelayMs |-> 2000, maxDelayMs |-> 4000,
     backoffHalves |-> 3, onRetry |-> TRUE]

\* The options waitForPortainerReachable hands to retry.
ReachableOptions(timeoutSeconds) ==
    [maxAttempts |-> CeilDiv(timeoutSeconds, 3), initialDelayMs |-> 2000, maxDelayMs |-> 5000,
     backoffHalves |-> 4, onRetry |-> TRUE]

\* if (exitCode !== 0) throw
UpOkAlways(res) == TRUE
UpOk(res) == res = "zero"

\* The error of a failed `tailscale up`: the one connectTailscale makes from
\* the exit code, or the one exec.exec rejected with.
UpError(res) ==
    IF res = "nonzero" THEN <<"tailscale up failed with exit code ", "nonzero">>
    ELSE <<"exec: ", res>>

\* What one `tailscale status --json` produces: the command fails, its
\* output is no JSON, or it is a TailscaleStatus with a BackendState and
\* with Self online, offline or absent.
StatusReport(kind, state, self) == [kind |-> kind, BackendState |-> state, Self |-> self]
StatusReports ==
    {StatusReport("json", state, self) :
        state \in {"Running", "Starting"}, self \in {"online", "offline", "none"}}
    \cup {StatusReport("garbage", "", "none"), StatusReport("exit", "", "none")}

\* The message of the error the polled function throws on a report, <<>>
\* when it throws none.
StatusErrorBackendOnly(report) ==
    IF report.kind = "exit" THEN <<"exec: ", "throw">>
    ELSE IF report.kind = "garbage" THEN <<"SyntaxError">>
    ELSE IF report.BackendState # "Running"
         THEN <<"Tailscale backend state: ", report.BackendState>>
    ELSE <<>>
StatusError(report) ==
    IF report.kind = "exit" THEN <<"exec: ", "throw">>
    ELSE IF report.kind = "garbage" THEN <<"SyntaxError">>
    ELSE IF report.BackendState # "Running"
         THEN <<"Tailscale backend state: ", report.BackendState>>
    ELSE IF report.Self # "online" THEN <<"Tailscale node is not yet online">>
    ELSE <<>>

\* How one GET <portainerUrl>/api/status ends: a response with a status
\* code (0 when the message carries none), or a rejection whose message
\* holds ECONNREFUSED, a certificate error, or a timeout.
ProbeResult(kind, status) == [kind |-> kind, status |-> status]
ProbeResults ==
    {ProbeResult("response", status) : status \in {0, 200, 401, 500}}
    \cup {ProbeResult(kind, 0) : kind \in {"ECONNREFUSED", "CERT", "ETIMEDOUT"}}

\* The message of the error the probing function throws, <<>> when none:
\* a 5xx response throws inside the try and is rethrown by the catch, a
\* refused connection is replaced by a new error, any other is rethrown.
ProbeError(result) ==
    IF result.kind = "response"
    THEN IF result.status >= 500 THEN <<"Portainer responded with HTTP ", result.status>>
         ELSE <<>>
    ELSE IF result.kind = "ECONNREFUSED" THEN <<"Cannot connect to Portainer">>
    ELSE <<result.kind>>

\* The message of the error retry throws when its loop ran no iteration.
NoAttemptsMessage == <<"retry: no attempts made">>

ConnectIdle ==
    /\ connCfg = NoConnectConfig
    /\ connPc = "off"
    /\ connLog = <<>>
    /\ reports = <<>>
    /\ probes = <<>>
    /\ connError = <<>>

ConnectInit ==
    /\ connCfg \in ConnectConfigs
    /\ connPc = "idle"
    /\ connLog = <<>>
    /\ reports = <<>>
    /\ probes = <<>>
    /\ connError = <<>>

\* connectTailscale up to the first status query: `sudo tailscale up ...`
\* ends; anything but exit code 0 throws, exit code 0 enters
\* waitForTailscaleOnline and its retry.
ConnectTailscaleUp(res) ==
    /\ connPc = "idle"
    /\ connLog' = Append(connLog, Exec("up", res))
    /\ IF UpOk(res)
       THEN /\ connPc' = "online"
            /\ RetryEnter(OnlineOptions(connCfg.connectTimeout))
            /\ UNCHANGED connError
       ELSE /\ connPc' = "thrown"
            /\ connError' = UpError(res)
            /\ UNCHANGED retryVars
    /\ UNCHANGED <<connCfg, reports, probes, tlsEnv, originalTlsReject>>

\* One invocation of the function waitForTailscaleOnline polls.
StatusPoll(report) ==
    /\ connPc = "online"
    /\ rpc = "invoke"
    /\ connLog' = Append(connLog, Exec("status", report.kind))
    /\ reports' = Append(reports, report)
    /\ IF StatusError(report) = <<>>
       THEN RetryFnResolves
       ELSE RetryFnRejects(RejectedError(attempt))
    /\ UNCHANGED <<connCfg, connPc, probes, connError, tlsEnv, originalTlsReject>>

\* The sleep between two polls of either phase is over.
ConnectSleepDone ==
    /\ connPc \in {"online", "reachable"}
    /\ RetrySleepDone
    /\ UNCHANGED <<connVars, tlsEnv, originalTlsReject>>

\* waitForTailscaleOnline is over: its retry threw the last error, which
\* connectTailscale lets through, or returned, and
\* waitForPortainerReachable is entered up to its first probe.
ConnectOnlineOver ==
    /\ connPc = "online"
    /\ rpc \in {"returned", "thrown"}
    /\ IF rpc = "returned"
       THEN /\ originalTlsReject' = tlsEnv
            /\ tlsEnv' = IF connCfg.tlsSkipVerify THEN "0" ELSE tlsEnv
            /\ RetryEnter(ReachableOptions(connCfg.connectTimeout))
            /\ connPc' = "reachable"
            /\ UNCHANGED connError
       ELSE /\ connPc' = "thrown"
            /\ connError' = IF lastError = NoAttemptsError THEN NoAttemptsMessage
                            ELSE StatusError(reports[lastError.of])
            /\ UNCHANGED <<retryVars, tlsEnv, originalTlsReject>>
    /\ UNCHANGED <<connCfg, connLog, reports, probes>>

\* One invocation of the function waitForPortainerReachable polls.
ProbePoll(result) ==
    /\ connPc = "reachable"
    /\ rpc = "invoke"
    /\ connLog' = Append(connLog, Exec("probe", result.kind))
    /\ probes' = Append(probes, result)
    /\ IF ProbeError(result) = <<>>
       THEN RetryFnResolves
       ELSE RetryFnRejects(RejectedError(attempt))
    /\ UNCHANGED <<connCfg, connPc, reports, connError, tlsEnv, originalTlsReject>>

\* waitForPortainerReachable is over: the finally block, then
\* connectTailscale returns or lets the last error through.
ConnectReachableOver ==
    /\ connPc = "reachable"
    /\ rpc \in {"returned", "thrown"}
    /\ tlsEnv' = RestoreTls(originalTlsReject, connCfg.tlsSkipVerify, tlsEnv)
    /\ IF rpc = "returned"
       THEN connPc' = "returned" /\ UNCHANGED connError
       ELSE /\ connPc' = "thrown"
            /\ connError' = IF lastError = NoAttemptsError THEN NoAttemptsMessage
                            ELSE ProbeError(probes[lastError.of])
    /\ UNCHANGED <<connCfg, connLog, reports, probes, retryVars, originalTlsReject>>

ConnectNext ==
    \/ \E res \in ExecResults : ConnectTailscaleUp(res) /\ UNCHANGED nonConnectVars
    \/ \E report \in StatusReports : StatusPoll(report) /\ UNCHANGED nonConnectVars
    \/ ConnectSleepDone /\ UNCHANGED nonConnectVars
    \/ ConnectOnlineOver /\ UNCHANGED nonConnectVars
    \/ \E result \in ProbeResults : ProbePoll(result) /\ UNCHANGED nonConnectVars
    \/ ConnectReachableOver /\ UNCHANGED nonConnectVars

\* ================================================= Part 9: PortainerClient
\* The response handling of get, post, put and delete. A body is the
\* sequence of its JSON tokens.
Methods == {"GET", "POST", "PUT", "DELETE"}
\* response.message.statusCode when the response carries none.
NoStatus == -1
RawStatuses == {NoStatus, 199, 200, 204, 299, 300, 401, 500}
JsonScalars == {"null", "1", "\"no\""}
JsonStrings == {"\"message\"", "\"no\""}
ValidBodies ==
    {<<"null">>, <<"1">>, <<"{", "}">>, <<"[", "]">>, <<"{", "\"message\"", ":", "\"no\"", "}">>}
InvalidBodies == {<<>>, <<"<html>">>, <<"{", "\"message\"", ":">>}
Bodies == ValidBodies \cup InvalidBodies
NoResponse == [statusCode |-> NoStatus, body |-> <<>>]
NoOutcome == [kind |-> "none"]

\* statusCode || 0
StatusOrZero(raw) == IF raw = NoStatus THEN 0 ELSE raw

Is2xxOrMissing(statusCode) == statusCode = 0 \/ (statusCode >= 200 /\ statusCode < 300)
\* The negation of `statusCode < 200 || statusCode >= 300`.
Is2xx(statusCode) == ~(statusCode < 200 \/ statusCode >= 300)

\* Whether JSON.parse accepts the body.
JsonAccepts(body) ==
    \/ Len(body) = 1 /\ body[1] \in JsonScalars
    \/ Len(body) = 2 /\ body[1] = "{" /\ body[2] = "}"
    \/ Len(body) = 2 /\ body[1] = "[" /\ body[2] = "]"
    \/ /\ Len(body) = 5
       /\ body[1] = "{" /\ body[2] \in JsonStrings /\ body[3] = ":"
       /\ body[4] \in JsonScalars /\ body[5] = "}"
\* The value JSON.parse gives for a body it accepts.
JsonParse(body) ==
    IF Len(body) = 1
    THEN [type |-> IF body[1] = "null" THEN "null" ELSE IF body[1] = "1" THEN "number" ELSE "string",
          members |-> {}]
    ELSE IF body[1] = "[" THEN [type |-> "array", members |-> {}]
    ELSE [type |-> "object",
          members |-> IF Len(body) = 5 THEN {<<body[2], body[4]>>} ELSE {}]

\* What createError appends after the status: the message member of a
\* parsed object, the raw body when parsing or reading the member throws
\* and the body is not empty, nothing otherwise.
ErrorDetail(body) ==
    IF JsonAccepts(body) /\ JsonParse(body).type # "null"
    THEN IF \E m \in JsonParse(body).members : m[1] = "\"message\""
         THEN [from |-> "message", text |-> body[4]]
         ELSE [from |-> "none", text |-> ""]
    ELSE IF body # <<>> THEN [from |-> "body", text |-> body[1]]
    ELSE [from |-> "none", text |-> ""]
CreateError(method, statusCode, body) ==
    [kind |-> "ApiError", method |-> method, statusCode |-> statusCode,
     detail |-> ErrorDetail(body), hint |-> statusCode \in {401, 403}]
ParseError(method, body) ==
    [kind |-> "ParseError", method |-> method,
     text |-> IF body = <<>> THEN "" ELSE body[1]]

HandleResponse(method, response) ==
    LET statusCode == StatusOrZero(response.statusCode)
    IN  IF ~Is2xx(statusCode) THEN CreateError(method, statusCode, response.body)
        ELSE IF JsonAccepts(response.body)
        THEN [kind |-> "value", value |-> JsonParse(response.body)]
        ELSE ParseError(method, response.body)

ClientIdle ==
    /\ clientPc = "idle"
    /\ clientReq = "none"
    /\ clientResp = NoResponse
    /\ clientOut = NoOutcome
    /\ bodyRead = FALSE

\* client.get / post / put / delete: the request leaves.
ClientRequest(method) ==
    /\ clientPc = "idle"
    /\ clientPc' = "sent"
    /\ clientReq' = method
    /\ UNCHANGED <<clientResp, clientOut, bodyRead>>

\* get, post, put: the response goes through handleResponse.
ClientHandleResponse(response) ==
    /\ clientPc = "sent"
    /\ clientReq # "DELETE"
    /\ clientResp' = response
    /\ bodyRead' = TRUE
    /\ clientOut' = HandleResponse(clientReq, response)
    /\ clientPc' = IF clientOut'.kind = "value" THEN "returned" ELSE "thrown"
    /\ UNCHANGED clientReq

\* delete: the body is read only to build the error.
ClientDeleteResponse(response) ==
    /\ clientPc = "sent"
    /\ clientReq = "DELETE"
    /\ clientResp' = response
    /\ LET statusCode == StatusOrZero(response.statusCode)
       IN  IF ~Is2xx(statusCode)
           THEN /\ bodyRead' = TRUE
                /\ clientOut' = CreateError("DELETE", statusCode, response.body)
                /\ clientPc' = "thrown"
           ELSE /\ bodyRead' = FALSE
                /\ clientOut' = [kind |-> "void"]
                /\ clientPc' = "returned"
    /\ UNCHANGED clientReq

\* The HTTP client rejects: no response arrives and the rejection propagates.
ClientRejected ==
    /\ clientPc = "sent"
    /\ clientPc' = "thrown"
    /\ clientOut' = [kind |-> "Rejected"]
    /\ UNCHANGED <<clientReq, clientResp, bodyRead>>

ClientNext ==
    \/ \E method \in Methods : ClientRequest(method) /\ UNCHANGED nonClientVars
    \/ \E raw \in RawStatuses, body \in Bodies :
           ClientHandleResponse([statusCode |-> raw, body |-> body]) /\ UNCHANGED nonClientVars
    \/ \E raw \in RawStatuses, body \in Bodies :
           ClientDeleteResponse([statusCode |-> raw, body |-> body]) /\ UNCHANGED nonClientVars
    \/ ClientRejected /\ UNCHANGED nonClientVars

\* ========================================================== specifications
StackIdle ==
    /\ stacks = {}
    /\ initial = {}
    /\ nextId = 1
    /\ call = [r \in SeqRuns |-> IdleCall]
    /\ results = <<>>

StacksOnlyInit ==
    /\ StackInit /\ RetryIdle /\ RunIdle /\ EndpointsIdle /\ RegistriesIdle /\ EnvParserIdle /\ AuthIdle
    /\ ConnectIdle /\ ClientIdle

\* deployStack and removeStack called in succession against one remote.
SpecStacks == StacksOnlyInit /\ [][StackNext]_vars

RetryOnlyInit ==
    /\ StackIdle /\ RetryIdle /\ RunIdle /\ EndpointsIdle /\ RegistriesIdle /\ EnvParserIdle /\ AuthIdle
    /\ ConnectIdle /\ ClientIdle

\* One activation of retry, for every policy and every behaviour of fn.
SpecRetry == RetryOnlyInit /\ [][RetryNext]_vars

WholeRunInit ==
    /\ StackInit /\ RetryIdle /\ RunInit /\ EndpointsIdle /\ RegistriesIdle /\ EnvParserIdle /\ AuthIdle
    /\ ConnectIdle /\ ClientIdle

\* One workflow job: the main step, then the post step.
SpecRun == WholeRunInit /\ [][RunNext]_vars

EndpointsOnlyInit ==
    /\ StackIdle /\ RetryIdle /\ RunIdle /\ EndpointsInit /\ RegistriesIdle /\ EnvParserIdle /\ AuthIdle
    /\ ConnectIdle /\ ClientIdle

\* One call of resolveEndpointId, for every argument and every remote.
SpecEndpoints == EndpointsOnlyInit /\ [][EndpointsNext]_vars

RegistriesOnlyInit ==
    /\ StackIdle /\ RetryIdle /\ RunIdle /\ EndpointsIdle /\ RegistriesInit /\ EnvParserIdle /\ AuthIdle
    /\ ConnectIdle /\ ClientIdle

\* ensureRegistry called in succession against one remote.
SpecRegistries == RegistriesOnlyInit /\ [][RegistriesNext]_vars

EnvParserOnlyInit ==
    /\ StackIdle /\ RetryIdle /\ RunIdle /\ EndpointsIdle /\ RegistriesIdle /\ AuthIdle
    /\ ConnectIdle /\ ClientIdle
    /\ EnvParserInit

\* One call of parseEnvVars, for every input text of up to MaxEnvLines lines.
SpecEnvParser == EnvParserOnlyInit /\ [][EnvParserNext]_vars

AuthOnlyInit ==
    /\ StackIdle /\ RetryIdle /\ RunIdle /\ EndpointsIdle /\ RegistriesIdle /\ EnvParserIdle
    /\ ConnectIdle /\ ClientIdle
    /\ AuthInit

\* One call of getAuthKey, for every config and every pair of responses.
SpecAuth == AuthOnlyInit /\ [][AuthNext]_vars

ConnectOnlyInit ==
    /\ StackIdle /\ RetryIdle /\ RunIdle /\ EndpointsIdle /\ RegistriesIdle /\ EnvParserIdle
    /\ AuthIdle
    /\ ConnectInit /\ ClientIdle

\* One call of connectTailscale, for every timeout and every behaviour of
\* the tailscale client and of the probed URL.
SpecConnect == ConnectOnlyInit /\ [][ConnectNext]_vars

ClientOnlyInit ==
    /\ StackIdle /\ RetryIdle /\ RunIdle /\ EndpointsIdle /\ RegistriesIdle /\ EnvParserIdle
    /\ AuthIdle /\ ConnectIdle /\ ClientIdle

\* One call of one client method, for every response the server can send.
SpecClient == ClientOnlyInit /\ [][ClientNext]_vars

OpenStacksInit ==
    /\ ConcurrentStackInit /\ RetryIdle /\ RunIdle /\ EndpointsIdle /\ RegistriesIdle
    /\ EnvParserIdle /\ AuthIdle /\ ConnectIdle /\ ClientIdle

\* deployStack called once by each of two runs at once, the remote
\* answering each PUT as it likes.
SpecOpenStacks == OpenStacksInit /\ [][OpenStackNext]_vars

\* ================================================================== claims
\* ------------------------------------------------- stack reconciler claims
SameKey(x, e, n) == x.endpointId = e /\ x.name = n
DeployIdx(e, n) == {i \in 1..Len(results) : results[i].op = "deploy" /\ SameKey(results[i], e, n)}
RemoveIdx(e, n) == {i \in 1..Len(results) : results[i].op = "remove" /\ SameKey(results[i], e, n)}
InitialIds == {s.Id : s \in initial}
Remote(e, n) == {s \in stacks : s.Name = n /\ s.EndpointId = e}
\* Indices of the listed stacks with exactly this name on exactly this endpoint.
Listed(c) == {i \in 1..Len(c.listing) : c.listing[i].Name = c.name
                                        /\ c.listing[i].EndpointId = c.endpointId}
PastListing(c) == c.pc \in {"update", "create", "delete", "done"}
    \/ (c.pc = "failed" /\ c.reqs # <<>>)

\* C1: with no stack (N, E) on the remote at the start and only deployStack
\* calls made for (E, N), the first call that returns reports status created
\* with an id no stack had before, every later one reports status updated
\* with that same id, and from the first return on exactly one stack (N, E)
\* exists remotely, under that id.
C1_DeployConverges ==
    \A e \in Endpoints, n \in Names :
        LET ds == DeployIdx(e, n)
            first == Min(ds)
        IN  ({s \in initial : s.Name = n /\ s.EndpointId = e} = {}
             /\ RemoveIdx(e, n) = {} /\ ds # {}) =>
                /\ results[first].status = "created"
                /\ results[first].stackId \notin
                       InitialIds \cup {results[j].stackId : j \in 1..(first - 1)}
                /\ \A i \in ds \ {first} :
                       results[i].status = "updated" /\ results[i].stackId = results[first].stackId
                /\ Cardinality(Remote(e, n)) = 1
                /\ \A s \in Remote(e, n) : s.Id = results[first].stackId

\* A stack absent at the start was deployed at least twice: a create
\* followed by an update.
C1_Witness ==
    \E e \in Endpoints, n \in Names :
        /\ {s \in initial : s.Name = n /\ s.EndpointId = e} = {}
        /\ RemoveIdx(e, n) = {}
        /\ Cardinality(DeployIdx(e, n)) >= 2

\* C2: a deployStack call that returned has sent exactly one mutating
\* request: a PUT to the id of the first listed match when the listing holds
\* a stack with this name on this endpoint, a POST otherwise; at no point of
\* a deployStack call has it sent two requests or a DELETE.
C2_OneMutatingRequest ==
    \A r \in DOMAIN call :
        LET c == call[r] IN
        c.op = "deploy" =>
            /\ Len(c.reqs) <= 1
            /\ \A i \in 1..Len(c.reqs) : c.reqs[i].method # "DELETE"
            /\ c.pc = "done" =>
                /\ Len(c.reqs) = 1
                /\ IF Listed(c) # {}
                   THEN c.reqs[1] = Req("PUT", c.listing[Min(Listed(c))].Id, c.endpointId)
                   ELSE c.reqs[1] = Req("POST", 0, c.endpointId)

C2_Witness ==
    \E r \in DOMAIN call :
        /\ call[r].op = "deploy" /\ call[r].pc = "done"
        /\ Listed(call[r]) # {}
        /\ call[r].reqs[1].method = "PUT"

\* C3: what findStackByName returned is a listed stack with exactly the
\* requested name and endpoint, and it is null exactly when no such stack is
\* listed; with only a same-name stack of another endpoint listed, deployStack
\* goes on to create, never to update.
C3_FindNeedsNameAndEndpoint ==
    \A r \in DOMAIN call :
        LET c == call[r] IN
        PastListing(c) =>
            /\ c.existing # NoStack =>
                   /\ c.existing.Name = c.name
                   /\ c.existing.EndpointId = c.endpointId
                   /\ \E i \in 1..Len(c.listing) : c.listing[i] = c.existing
            /\ (c.existing = NoStack) <=> (Listed(c) = {})
            /\ (c.op = "deploy" /\ Listed(c) = {}) =>
                   /\ c.pc \in {"create", "done", "failed"}
                   /\ \A i \in 1..Len(c.reqs) : c.reqs[i].method = "POST"
                   /\ c.pc = "done" => c.result.status = "created"

\* The listing held a stack of the same name on another endpoint, and the
\* deployStack call created.
C3_Witness ==
    \E r \in DOMAIN call :
        LET c == call[r] IN
        /\ c.op = "deploy" /\ c.pc = "done" /\ c.result.status = "created"
        /\ \E i \in 1..Len(c.listing) :
               c.listing[i].Name = c.name /\ c.listing[i].EndpointId # c.endpointId

\* C4: a removeStack call whose listing holds no stack with this name on this
\* endpoint has returned {stackId: 0, status: 'deleted'} as soon as the
\* listing arrived, without sending any request.
C4_RemoveAbsent ==
    \A r \in DOMAIN call :
        LET c == call[r] IN
        (c.op = "remove" /\ c.pc # "list" /\ c.pc # "idle"
         /\ ~(c.pc = "failed" /\ c.reqs = <<>>) /\ Listed(c) = {}) =>
            /\ c.pc = "done"
            /\ c.result = [stackId |-> 0, status |-> "deleted"]
            /\ c.reqs = <<>>
            /\ results[Len(results)].reqs = <<>>

C4_Witness ==
    \E r \in DOMAIN call :
        LET c == call[r] IN
        /\ c.op = "remove" /\ c.pc = "done" /\ Listed(c) = {}
        /\ Len(c.listing) > 0

\* C5: a removeStack call that returned with a match listed sent exactly one
\* request, the DELETE of the first listed match's id, and reports that id
\* with status deleted, after which no stack (N, E) is left; and a
\* removeStack that returns after an earlier removeStack of the same
\* (endpointId, name), with no deployStack of it in between, sent nothing
\* and reports stackId 0 with status deleted.
C5_RemoveIdempotent ==
    /\ \A r \in DOMAIN call :
           LET c == call[r] IN
           (c.op = "remove" /\ c.pc = "done" /\ Listed(c) # {}) =>
               /\ c.reqs = <<Req("DELETE", c.listing[Min(Listed(c))].Id, c.endpointId)>>
               /\ c.result = [stackId |-> c.listing[Min(Listed(c))].Id, status |-> "deleted"]
               /\ Remote(c.endpointId, c.name) = {}
    /\ \A e \in Endpoints, n \in Names :
           \A i, j \in RemoveIdx(e, n) :
               (i < j /\ \A k \in DeployIdx(e, n) : ~(i < k /\ k < j)) =>
                   /\ results[j].reqs = <<>>
                   /\ results[j].stackId = 0
                   /\ results[j].status = "deleted"

\* The same stack was removed twice: the first call deleted it, the second
\* found nothing.
C5_Witness ==
    \E e \in Endpoints, n \in Names :
        \E i, j \in RemoveIdx(e, n) :
            /\ j = i + 1
            /\ results[i].stackId > 0
            /\ Len(results[i].reqs) = 1
            /\ results[j].stackId = 0

\* ------------------------------------------------------------ retry claims
RECURSIVE CountIn(_, _)
\* Number of entries of sequence s that lie in set S.
CountIn(s, S) ==
    IF s = <<>> THEN 0
    ELSE (IF s[Len(s)] \in S THEN 1 ELSE 0) + CountIn(SubSeq(s, 1, Len(s) - 1), S)

\* C6: when retry returns, the operation failed on attempts 1..k-1 and
\* succeeded on attempt k <= maxAttempts, where k is the number of times it
\* was invoked; the value returned is the one of attempt k; an observer, when
\* given, was called k-1 times, its i-th call carrying attempt number i and
\* the (normalized) error of attempt i; k-1 delays were slept.
C6_ReturnsAfterKInvocations ==
    rpc = "returned" =>
        LET k == Len(fnLog) IN
        /\ k >= 1 /\ k <= opts.maxAttempts /\ k = attempt
        /\ fnLog[k].kind = "value"
        /\ \A i \in 1..(k - 1) : fnLog[i].kind # "value"
        /\ outcome = fnLog[k]
        /\ Len(slept) = k - 1
        /\ IF opts.onRetry
           THEN /\ Len(observed) = k - 1
                /\ \A i \in 1..(k - 1) :
                       observed[i] = [attempt |-> i, error |-> Normalize(fnLog[i])]
           ELSE observed = <<>>

\* Two failures, then success on the third attempt, with an observer.
C6_Witness ==
    /\ rpc = "returned"
    /\ ValidPolicy(opts) /\ opts.onRetry
    /\ Len(fnLog) = 3
    /\ Len(observed) = 2

\* C7: with maxAttempts >= 1, when retry throws, the operation was invoked
\* exactly maxAttempts times, failed every time, and the error thrown is the
\* (normalized) error of attempt maxAttempts.
C7_ThrowsLastError ==
    (rpc = "thrown" /\ opts.maxAttempts >= 1) =>
        /\ Len(fnLog) = opts.maxAttempts
        /\ \A i \in 1..Len(fnLog) : fnLog[i].kind # "value"
        /\ outcome = Normalize(fnLog[opts.maxAttempts])
        /\ outcome.of = opts.maxAttempts

\* Three attempts, all failed.
C7_Witness ==
    /\ rpc = "thrown"
    /\ opts.maxAttempts = 3
    /\ Len(fnLog) = 3

\* C8: the delays slept are d_1 = initialDelay and
\* d_(n+1) = min(d_n * multiplier, maxDelay), one after each failed attempt
\* but the last; for a valid policy they never decrease and lie in
\* [initialDelay, maxDelay]; for init=100, max=150, mult=2 they are
\* 100, 150, 150.  (Delays in 1/Scale ms, the multiplier in halves.)
C8_DelaySequence ==
    /\ Len(slept) >= 1 => slept[1] = opts.initialDelayMs * Scale
    /\ \A n \in 1..(Len(slept) - 1) :
           2 * slept[n + 1] = Min2(slept[n] * opts.backoffHalves, 2 * opts.maxDelayMs * Scale)
    /\ Len(slept) = CountIn(fnLog, {RejectedError(i) : i \in 1..MaxAttemptsBound}
                                   \cup {RejectedOther(i) : i \in 1..MaxAttemptsBound})
                    - (IF rpc = "thrown" /\ opts.maxAttempts >= 1 THEN 1 ELSE 0)
    /\ ValidPolicy(opts) =>
           /\ \A n \in 1..Len(slept) :
                  /\ opts.initialDelayMs * Scale <= slept[n]
                  /\ slept[n] <= opts.maxDelayMs * Scale
           /\ \A n \in 1..(Len(slept) - 1) : slept[n] <= slept[n + 1]
    /\ (opts.initialDelayMs = 100 /\ opts.maxDelayMs = 150 /\ opts.backoffHalves = 4) =>
           \A n \in 1..Len(slept) : slept[n] = (IF n = 1 THEN 100 ELSE 150) * Scale

\* init=100, max=150, mult=2: three delays were slept.
C8_Witness ==
    /\ opts.initialDelayMs = 100 /\ opts.maxDelayMs = 150 /\ opts.backoffHalves = 4
    /\ Len(slept) = 3

\* -------------------------------------------------------------- run claims
UpSucceeded == \E i \in 1..Len(execLog) : execLog[i] = Exec("up", "zero")
LogoutInvoked == \E i \in 1..Len(execLog) : execLog[i].cmd = "logout"
PostOver == postPc \in {"done", "skipped", "thrown"}
CleanupProblems == {Exec(c, r) : c \in {"down", "logout"}, r \in {"nonzero", "throw"}}

\* C9: in every run in which `tailscale up` exited with code 0, the post
\* step, once over, has invoked `tailscale logout`.
C9_AlwaysLoggedOut ==
    (PostOver /\ UpSucceeded) => LogoutInvoked

\* C10: disconnectTailscale never throws and never marks the run failed,
\* whatever `down` and `logout` do: setFailed has been called only by the
\* main step's catch block; once `logout` has ended or either command has
\* thrown, the cleanup has returned normally; and every non-zero exit and
\* every thrown error has been reported as one warning.
C10_CleanupNeverEscalates ==
    /\ postPc # "thrown"
    /\ setFailedCalls = (IF mainPc = "failed" THEN 1 ELSE 0)
    /\ warnings = CountIn(execLog, CleanupProblems)
    /\ (execLog # <<>> /\ (execLog[Len(execLog)].cmd = "logout"
                          \/ execLog[Len(execLog)] = Exec("down", "throw"))) => postPc = "done"

\* `down` exited non-zero, `logout` threw, and the post step ended normally
\* after a successful main step.
C10_Witness ==
    /\ postPc = "done" /\ mainPc = "done"
    /\ execLog[Len(execLog)] = Exec("logout", "throw")
    /\ execLog[Len(execLog) - 1] = Exec("down", "nonzero")
    /\ warnings = 2

\* ---------------------------------------------------------- TLS flag claims
BeforeProbe == {"config", "auth", "up", "online", "reachable"}
ProbeReturned == mainPc = "client"
ProbeThrew == mainPc = "failed" /\ failedAt = "probing"

\* C11: at the end of the main step, whether it succeeded or failed,
\* NODE_TLS_REJECT_UNAUTHORIZED has the value, or the absence, it had when
\* the main step started.
C11_RunRestoresFlag ==
    MainOver => tlsEnv = tlsEnv0

\* C12: waitForPortainerReachable leaves the flag as it found it.  Nothing
\* before the probe writes the flag, so the flag it finds is the one of the
\* start; just after the probe has returned or thrown, for every starting
\* flag, both values of tlsSkipVerify and each of the three outcomes, the
\* flag is the starting one again, an unset flag being unset.
C12_ProbeLeavesFlag ==
    /\ mainPc \in BeforeProbe => tlsEnv = tlsEnv0
    /\ (ProbeReturned \/ ProbeThrew) => (probe \in ProbeOutcomes /\ tlsEnv = tlsEnv0)

\* The flag was unset, tlsSkipVerify was true, the probe used up its budget,
\* and the flag is unset again.
C12_Witness ==
    /\ ProbeThrew /\ probe = "exhausted"
    /\ cfg.tlsSkipVerify
    /\ tlsEnv0 = Unset /\ tlsEnv = Unset

\* --------------------------------------------------------- endpoint claims
EndpointPairs(es) == {<<es[i].Id, es[i].Name>> : i \in 1..Len(es)}
\* The (id, name) pairs the lines of an error message carry.
NamedInError(err) == {<<err.list[i][2], err.list[i][4]>> : i \in 1..Len(err.list)}
ResolveOver == epPc \in {"done", "failed"}
Listed13 == ResolveOver /\ providedId <= 0 /\ epError.kind # "request"

\* C13: with providedId <= 0 and the listing received: no endpoint, the call
\* fails; exactly one, it returns that endpoint's id; two or more, it fails,
\* returns no id, and its error names the id and the name of every endpoint.
C13_AutoDetect ==
    Listed13 =>
        /\ epGets = 1
        /\ Len(endpoints) = 0 => (epPc = "failed" /\ resolved = 0)
        /\ Len(endpoints) = 1 => (epPc = "done" /\ resolved = endpoints[1].Id)
        /\ Len(endpoints) >= 2 =>
               /\ epPc = "failed" /\ resolved = 0
               /\ Len(epError.list) = Len(endpoints)
               /\ NamedInError(epError) = EndpointPairs(endpoints)

\* Three endpoints were listed and the call failed naming all three.
C13_Witness ==
    /\ Listed13 /\ Len(endpoints) = 3
    /\ epPc = "failed" /\ Cardinality(NamedInError(epError)) = 3

\* C14: with providedId > 0 the call returns providedId itself and sends no
\* request, whatever the remote holds.
C14_ProvidedVerbatim ==
    (epPc # "idle" /\ providedId > 0) =>
        (epPc = "done" /\ resolved = providedId /\ epGets = 0 /\ epError = NoEndpointError)

\* providedId 2 was returned although the remote's only endpoint has id 1.
C14_Witness ==
    /\ epPc = "done" /\ providedId = 2 /\ resolved = 2 /\ epGets = 0
    /\ Len(endpoints) = 1 /\ endpoints[1].Id = 1

\* --------------------------------------------------------- registry claims
RegIdx(u) == {i \in 1..Len(regResults) : regResults[i].url = u}
\* The other spelling of the same registry: with or without `https://`.
OtherForms(u) == {v \in RegistryUrls : v = HttpsOf(u) \/ u = HttpsOf(v)}
VerbCount(reqs, verb) == Cardinality({k \in 1..Len(reqs) : reqs[k].verb = verb})
\* The remote started with no registry for u, and every call so far named
\* u or an unrelated registry.
Scenario17(u) ==
    /\ \A r \in regInitial : ~RegistryMatches(r, u)
    /\ \A i \in 1..Len(regResults) : regResults[i].url \notin OtherForms(u)
    /\ regCall.url \notin OtherForms(u)
EarlierOk(u, i) == {j \in RegIdx(u) : j < i /\ regResults[j].ok}

\* C17: in a succession of ensureRegistry(u, ...) calls on a remote that
\* started with no registry for u: a call before which none has succeeded
\* sends no PUT and, when it succeeds, has sent exactly one POST; every call
\* after the first successful one, whatever its credentials, sends no POST
\* and, once past the listing, exactly one PUT, to the id the first one
\* created; and the remote never holds more than one registry for u.
C17_UpsertIdempotent ==
    \A u \in RegistryUrls : Scenario17(u) =>
        /\ \A i \in RegIdx(u) :
              LET e == regResults[i]
                  first == Min(EarlierOk(u, i))
              IN  IF EarlierOk(u, i) = {}
                  THEN /\ VerbCount(e.reqs, "PUT") = 0
                       /\ e.ok => e.reqs = <<RegReq("GET", 0), RegReq("POST", 0)>>
                  ELSE /\ VerbCount(e.reqs, "POST") = 0
                       /\ Len(e.reqs) > 1 =>
                              e.reqs = <<RegReq("GET", 0), RegReq("PUT", regResults[first].id)>>
        /\ Cardinality({r \in registries : RegistryMatches(r, u)}) <= 1

\* Three calls for https://ghcr.io succeeded on a remote that already held
\* ghcr.io: one POST, then two PUTs to the created id, the last one with
\* other credentials than the first.
C17_Witness ==
    /\ Len(regResults) = 3
    /\ \A i \in 1..3 : regResults[i].url = HttpsOf(<<"ghcr.io">>) /\ regResults[i].ok
    /\ \E r \in regInitial : r.URL = <<"ghcr.io">>
    /\ regResults[1].reqs = <<RegReq("GET", 0), RegReq("POST", 0)>>
    /\ regResults[2].reqs = <<RegReq("GET", 0), RegReq("PUT", regResults[1].id)>>
    /\ regResults[3].reqs = <<RegReq("GET", 0), RegReq("PUT", regResults[1].id)>>
    /\ regResults[3].cred # regResults[1].cred

\* ------------------------------------------------ run claims, second group
ConfigRead == mainPc # "config"
\* The inputs pass every check of getConfig that is not about endpoint_id.
OtherInputsValid == inputs.rest /\ ConfigAction(inputs) \in Actions
AutoDetectAsked == OrElse(inputs.endpoint_id, DocumentedEndpointId) = "0"
ReconcileCalled == call[1].pc # "idle"

\* C15: in a run whose endpoint_id is 0, given or by the documented
\* default, and whose other inputs are valid, the run is not stopped for its
\* endpoint_id, and once it has called deployStack or removeStack it has
\* fetched the endpoints and has passed the id that the detection returned.
C15_ZeroAutoDetects ==
    (ConfigRead /\ OtherInputsValid /\ AutoDetectAsked) =>
        /\ ~(mainPc = "failed" /\ failedAt = "config")
        /\ ReconcileCalled =>
               (epGets > 0 /\ epPc = "done" /\ call[1].endpointId = resolved)

StackWriteIssued ==
    \/ call[1].pc \in {"update", "create"}
    \/ \E k \in 1..Len(call[1].reqs) : call[1].reqs[k].method \in {"POST", "PUT"}

\* C16: in a deploy run with registry credentials, once the stack create or
\* update request has been sent, an ensureRegistry call for the given
\* registry URL has returned.
C16_RegistryBeforeStack ==
    (ConfigRead /\ inputs.registry_url # <<>> /\ cfg.action = "deploy" /\ StackWriteIssued) =>
        \E i \in 1..Len(regResults) : regResults[i].ok /\ regResults[i].url = inputs.registry_url

\* ------------------------------------------------------- env-parser claims
\* The trimmed line at 1-based position k of the input.
LineAt(k) == Trim(envLinesIn[k])
IsSkipped(k) == LineAt(k) = <<>> \/ LineAt(k)[1] = "#"
HasNoEquals(k) == \A c \in 1..Len(LineAt(k)) : LineAt(k)[c] # "="
FirstEquals(k) == Min({c \in 1..Len(LineAt(k)) : LineAt(k)[c] = "="})
KeyAt(k) == Trim(SubSeq(LineAt(k), 1, FirstEquals(k) - 1))
ValueAt(k) == Trim(SubSeq(LineAt(k), FirstEquals(k) + 1, Len(LineAt(k))))
IsMalformed(k) == ~IsSkipped(k) /\ HasNoEquals(k)
HasEmptyKey(k) == ~IsSkipped(k) /\ ~HasNoEquals(k) /\ KeyAt(k) = <<>>
BadLines == {k \in 1..Len(envLinesIn) : IsMalformed(k) \/ HasEmptyKey(k)}
Declarations == {k \in 1..Len(envLinesIn) : ~IsSkipped(k)}
\* The declarations after which the same key is not declared again.
LastDeclarations ==
    {k \in Declarations : \A j \in Declarations : j > k => KeyAt(j) # KeyAt(k)}
\* The k-th smallest element of a set of numbers.
RECURSIVE Nth(_, _)
Nth(S, k) == IF k = 1 THEN Min(S) ELSE Nth(S \ {Min(S)}, k - 1)
ParserOver == envPc = "over"

\* C18: when parseEnvVars returns, its output holds one entry for each last
\* declaration of a key, with that declaration's value, in the order of
\* these last declarations; so each name occurs once, and A=1, B=2, A=3
\* gives [B=2, A=3].
C18_LastDeclarationWins ==
    (ParserOver /\ envOut.kind = "returned") =>
        /\ Len(envOut.value) = Cardinality(LastDeclarations)
        /\ \A n \in 1..Len(envOut.value) :
              envOut.value[n] = StackEnvVar(KeyAt(Nth(LastDeclarations, n)),
                                            ValueAt(Nth(LastDeclarations, n)))
        /\ \A m, n \in 1..Len(envOut.value) :
              envOut.value[m].name = envOut.value[n].name => m = n
        /\ envLinesIn = <<(<<"A", "=", "1">>), (<<"B", "=", "2">>), (<<"A", "=", "3">>)>> =>
              envOut.value = <<StackEnvVar(<<"B">>, <<"2">>), StackEnvVar(<<"A">>, <<"3">>)>>

\* A=1, B=2, A=3 was parsed to [B=2, A=3].
C18_Witness ==
    /\ ParserOver
    /\ envLinesIn = <<(<<"A", "=", "1">>), (<<"B", "=", "2">>), (<<"A", "=", "3">>)>>
    /\ envOut = Returned(<<StackEnvVar(<<"B">>, <<"2">>), StackEnvVar(<<"A">>, <<"3">>)>>)

\* C19: parseEnvVars throws exactly when the input has a line that is
\* neither blank nor a comment and has no `=` or nothing but blanks before
\* its first `=`; it then returns no value, and its error is the one of the
\* first such line, malformed or empty key, with that line's 1-based
\* position among all the lines of the input.
C19_FailsOnFirstBadLine ==
    ParserOver =>
        IF BadLines = {}
        THEN envOut.kind = "returned"
        ELSE /\ envOut.value = <<>>
             /\ envOut.line = Min(BadLines)
             /\ envOut.kind = (IF IsMalformed(Min(BadLines)) THEN "Malformed env var"
                                                             ELSE "Empty key")

\* A comment, a valid declaration, then a line with an empty key: the error
\* cites line 3.
C19_Witness ==
    /\ ParserOver
    /\ envLinesIn = <<(<<"#", "A", "=", "1">>), (<<"A", "=", "1">>), (<<" ", "=", "1">>)>>
    /\ envOut = Thrown("Empty key", 3)

\* ------------------------------------------------------------- auth claims
AuthCalled == authPc \notin {"off", "idle"}

\* C20: called with a non-empty auth key, getAuthKey has returned exactly
\* that key and has sent no HTTP request, whether or not the OAuth client
\* id and secret are given as well.
C20_AuthKeyPassthrough ==
    (AuthCalled /\ authCfg.authKey # "") =>
        (authPc = "done" /\ authOut = authCfg.authKey /\ authReqs = <<>>)

\* The auth key was returned although the OAuth client id and secret were
\* given too.
C20_Witness ==
    /\ authPc = "done" /\ authOut = "tskey-auth-1" /\ authReqs = <<>>
    /\ authCfg.oauthClientId # "" /\ authCfg.oauthSecret # ""

\* C21: without an auth key, the requests getAuthKey has sent are the token
\* request, then the key request, and no other; the key request is sent
\* only after a token response with status 200; a token response with
\* another status fails the call with the key request unsent, and a key
\* response with another status fails it with no key returned; a key is
\* returned only after both responses had status 200.
C21_OAuthOrder ==
    (AuthCalled /\ authCfg.authKey = "") =>
        /\ Len(authReqs) \in {1, 2}
        /\ authReqs[1] = TokenRequest(authCfg)
        /\ Len(authReqs) = 2 =>
               (authStatuses[1] = 200 /\ authReqs[2] = KeyRequest(accessToken, authCfg))
        /\ (Len(authStatuses) >= 1 /\ authStatuses[1] # 200) =>
               (authPc = "failed" /\ Len(authReqs) = 1 /\ authOut = "")
        /\ (Len(authStatuses) = 2 /\ authStatuses[2] # 200) =>
               (authPc = "failed" /\ authOut = "")
        /\ authOut # "" => (authPc = "done" /\ authStatuses = <<200, 200>>)
        /\ authPc = "done" => authOut \in IssuedKeys

\* The token response was 200 and the key response 401: two requests were
\* sent, the call failed at the key request and returned nothing.
C21_Witness ==
    /\ authCfg.authKey = "" /\ authPc = "failed"
    /\ authStatuses = <<200, 401>>
    /\ Len(authReqs) = 2 /\ authOut = ""
    /\ authError = AuthError("tailnet/-/keys", 401)

\* ----------------------------------------------- retry claims, second group
\* C25: when retry has thrown after its maxAttempts-th attempt failed, the
\* observer was called and a delay was slept after each of the attempts
\* before it and not after it: maxAttempts - 1 of each, the observer calls
\* carrying the attempt numbers 1..maxAttempts-1.  With maxAttempts = 1 the
\* operation is invoked at most once, the observer is never called and no
\* delay is slept, whether the attempt fails or succeeds.
C25_NothingAfterLastAttempt ==
    /\ (rpc = "thrown" /\ opts.maxAttempts >= 1) =>
           /\ Len(fnLog) = opts.maxAttempts
           /\ Len(slept) = opts.maxAttempts - 1
           /\ opts.onRetry =>
                  /\ Len(observed) = opts.maxAttempts - 1
                  /\ \A i \in 1..Len(observed) : observed[i].attempt = i
    /\ (rpc # "idle" /\ opts.maxAttempts = 1) =>
           (Len(fnLog) <= 1 /\ observed = <<>> /\ slept = <<>> /\ rpc # "sleep")

\* maxAttempts = 1 with an observer: the only attempt failed and retry threw
\* its error.
C25_Witness ==
    /\ rpc = "thrown" /\ opts.maxAttempts = 1 /\ opts.onRetry
    /\ Len(fnLog) = 1 /\ outcome = Normalize(fnLog[1])
    /\ observed = <<>> /\ slept = <<>>

\* ------------------------------------------------- run claims, third group
UpInvoked == \E i \in 1..Len(execLog) : execLog[i].cmd = "up"
EnvVarsInvalid == ParseEnvVars(inputs.env_vars).kind # "returned"
EndpointIdInvalid == ConfigEndpointId(inputs).nan \/ ConfigEndpointId(inputs).n < 1
SomeInputInvalid ==
    \/ ~inputs.rest
    \/ ConfigAction(inputs) \notin Actions
    \/ EndpointIdInvalid
    \/ EnvVarsInvalid

\* C22: a run one of whose inputs is invalid fails in getConfig, before the
\* auth stage is entered and without `tailscale up` being invoked.
C22_InvalidInputFailsFast ==
    (ConfigRead /\ SomeInputInvalid) =>
        (mainPc = "failed" /\ failedAt = "config" /\ ~UpInvoked)

\* The stages of run(), in order, and the position of each.
StageOrder == <<"config", "auth", "up", "online", "reachable", "probing", "client", "envvars",
                "reconcile", "reconciling">>
StageNo(stage) == CHOOSE n \in 1..Len(StageOrder) : StageOrder[n] = stage

\* C23: once a stage of run() has thrown, nothing of a later stage has
\* happened: a failure before `tailscale up` leaves it uninvoked, a failure
\* before the reconcile stage leaves deployStack / removeStack uncalled, a
\* failure before the state is saved leaves it unsaved; setFailed has been
\* called once, with the prefixed message of that stage, and no output is
\* set.  When run() has succeeded the outputs are stack_id then
\* stack_status, once each, from the DeployResult, and setFailed has not
\* been called.  Before either, no output is set and setFailed not called.
C23_FirstErrorAborts ==
    /\ mainPc = "failed" =>
           /\ setFailedCalls = 1
           /\ failedMessage = FailedMessage(failedAt)
           /\ outputs = <<>>
           /\ StageNo(failedAt) <= StageNo("up") - 1 => ~UpInvoked
           /\ StageNo(failedAt) <= StageNo("probing") => savedState # "true"
           /\ StageNo(failedAt) <= StageNo("envvars") => call[1].pc = "idle"
           /\ failedAt = "reconciling" => call[1].pc = "failed"
    /\ mainPc = "done" =>
           /\ setFailedCalls = 0 /\ failedMessage = <<>>
           /\ call[1].pc = "done"
           /\ outputs = <<[name |-> "stack_id", value |-> call[1].result.stackId],
                          [name |-> "stack_status", value |-> call[1].result.status]>>
    /\ ~MainOver => (outputs = <<>> /\ setFailedCalls = 0)

\* parseEnvVars threw after the connection was made: the run is failed
\* once, no stack call was made and no output is set.
C23_Witness ==
    /\ mainPc = "failed" /\ failedAt = "envvars"
    /\ UpInvoked /\ savedState = "true"
    /\ call[1].pc = "idle" /\ outputs = <<>> /\ setFailedCalls = 1

CleanupEntered ==
    postPc \in {"down", "logout"} \/ \E i \in 1..Len(execLog) : execLog[i].cmd = "down"
PostStarted == postPc \notin {"off", "waiting"}

RECURSIVE SumSeq(_)
SumSeq(q) == IF q = <<>> THEN 0 ELSE Head(q) + SumSeq(Tail(q))
\* connectTimeout, in the unit of the delays.
TimeoutDelay == connCfg.connectTimeout * 1000 * Scale
ConnCmds == [i \in 1..Len(connLog) |-> connLog[i].cmd]
Sent(cmd) == \E i \in 1..Len(connLog) : connLog[i].cmd = cmd
CmdRank(cmd) == CASE cmd = "up" -> 1 [] cmd = "status" -> 2 [] cmd = "probe" -> 3
IsReady(report) ==
    report.kind = "json" /\ report.BackendState = "Running" /\ report.Self = "online"
IsReachable(result) == result.kind = "response" /\ result.status < 500
LastReportReady == reports # <<>> /\ IsReady(reports[Len(reports)])
LastProbeReachable == probes # <<>> /\ IsReachable(probes[Len(probes)])

\* C24: when a polling phase has given up, the delays it slept add up to at
\* most connectTimeout seconds, in the online phase and in the reachability
\* phase.
C24_BackoffWithinTimeout ==
    (connPc \in {"online", "reachable"} /\ rpc = "thrown") => SumSeq(slept) <= TimeoutDelay

\* C26: the commands of connectTailscale come in the order up, status
\* queries, probes, with one `up`; a status query is sent only after `up`
\* exited with 0, a probe only after a status report that was ready, and
\* connectTailscale has returned only after a probe that found the URL
\* reachable; after a failed `up` nothing more is sent, and after the status
\* polling gave up no probe is sent.
C26_StepsOrdered ==
    /\ \A i, j \in 1..Len(connLog) : i < j => CmdRank(connLog[i].cmd) <= CmdRank(connLog[j].cmd)
    /\ \A i \in 1..Len(connLog) : (connLog[i].cmd = "up") <=> (i = 1)
    /\ Sent("status") => connLog[1] = Exec("up", "zero")
    /\ (Sent("probe") \/ connPc = "reachable") => LastReportReady
    /\ connPc = "returned" => LastProbeReachable
    /\ (connLog # <<>> /\ connLog[1] # Exec("up", "zero")) =>
           (connPc = "thrown" /\ Len(connLog) = 1 /\ connError # <<>>)
    /\ (connPc = "thrown" /\ reports # <<>> /\ ~LastReportReady) =>
           (~Sent("probe") /\ connError # <<>>)

\* connectTailscale returned after two status queries and two probes.
C26_Witness ==
    /\ connPc = "returned"
    /\ ConnCmds = <<"up", "status", "status", "probe", "probe">>

\* C27: with connectTimeout T the status query is invoked at most ceil(T/2)
\* times and the probe at most ceil(T/3) times; the budget of the
\* reachability phase is ceil(T/3) whatever the online phase used; and a
\* phase that is over has made at least one attempt.
C27_AttemptBudgets ==
    /\ 2 * Len(reports) < connCfg.connectTimeout + 2
    /\ 3 * Len(probes) < connCfg.connectTimeout + 3
    /\ connPc = "online" =>
           /\ opts.maxAttempts >= 1
           /\ 2 * opts.maxAttempts >= connCfg.connectTimeout
           /\ 2 * opts.maxAttempts < connCfg.connectTimeout + 2
    /\ connPc = "reachable" =>
           /\ opts.maxAttempts >= 1
           /\ 3 * opts.maxAttempts >= connCfg.connectTimeout
           /\ 3 * opts.maxAttempts < connCfg.connectTimeout + 3
    /\ (connPc \in {"reachable", "returned"} \/ (connPc = "thrown" /\ Sent("status"))) =>
           Len(reports) >= 1
    /\ (connPc = "returned" \/ (connPc = "thrown" /\ LastReportReady)) => Len(probes) >= 1
    /\ (connPc = "online" /\ rpc = "thrown") => 2 * Len(reports) >= connCfg.connectTimeout
    /\ (connPc = "reachable" /\ rpc = "thrown") => 3 * Len(probes) >= connCfg.connectTimeout

\* With T = 7 the online phase used all its 4 attempts and the reachability
\* phase then used all its 3.
C27_Witness ==
    /\ connCfg.connectTimeout = 7
    /\ Len(reports) = 4
    /\ Len(probes) = 3
    /\ connPc = "thrown"

\* What the error says about the report it was thrown for.
Describes(message, report) ==
    IF report.kind # "json" THEN message # <<>>
    ELSE IF report.BackendState # "Running"
         THEN message = <<"Tailscale backend state: ", report.BackendState>>
    ELSE message = <<"Tailscale node is not yet online">>

\* C28: the online phase is left for the reachability phase only on a
\* report with BackendState "Running" and Self online, and such a report
\* is the last one; any other report within the budget is followed by a
\* sleep and then another query; when the budget is used up connectTailscale
\* throws the error made for the last report.
C28_OnlineOnlyWhenReady ==
    /\ (connPc \in {"reachable", "returned"} \/ (connPc = "online" /\ rpc = "returned")
          \/ probes # <<>>) => LastReportReady
    /\ \A i \in 1..Len(reports) :
           /\ IsReady(reports[i]) => i = Len(reports)
           /\ (~IsReady(reports[i]) /\ 2 * i < connCfg.connectTimeout) =>
                  (i < Len(reports) \/ (connPc = "online" /\ rpc \in {"sleep", "invoke"}))
           /\ (~IsReady(reports[i]) /\ 2 * i >= connCfg.connectTimeout) =>
                  /\ i = Len(reports)
                  /\ (connPc = "online" /\ rpc = "thrown") \/ connPc = "thrown"
    /\ (connPc = "thrown" /\ reports # <<>> /\ ~LastReportReady) =>
           Describes(connError, reports[Len(reports)])

\* The budget of T = 7 was used up on reports of which the last had the
\* backend running and the node offline.
C28_Witness ==
    /\ connPc = "thrown"
    /\ Len(reports) = 4
    /\ reports[1] = StatusReport("json", "Starting", "online")
    /\ reports[3] = StatusReport("garbage", "", "none")
    /\ reports[4] = StatusReport("json", "Running", "offline")

\* C29: a probe that ended with an error other than a refused connection
\* or a 5xx response is the last probe, and no delay is slept after it.
C29_OtherErrorsPropagate ==
    \A i \in 1..Len(probes) :
        probes[i].kind \notin {"response", "ECONNREFUSED"} =>
            (i = Len(probes) /\ Len(slept) < i /\ rpc # "sleep")

\* ------------------------------------------------------- cleanup order claim
\* `logout` is invoked at most once and directly after `down`.
DownThenLogout ==
    \A i \in 1..Len(execLog) :
        execLog[i].cmd = "logout" => (i > 1 /\ execLog[i - 1].cmd = "down")
DownRejected == \E i \in 1..Len(execLog) : execLog[i] = Exec("down", "throw")

ObtainedSecrets == AccessTokens \cup IssuedKeys
MarkedBefore(i) ==
    \E j \in 1..(i - 1) : authLog[j].op = "setSecret" /\ authLog[j].value = authLog[i].value

\* C32: on the OAuth path every step that returns an obtained secret (the
\* access token, the generated key) from a function or sends it in a
\* request comes after a core.setSecret of that value.
C32_MarkedOnReceipt ==
    \A i \in 1..Len(authLog) :
        (authLog[i].op \in {"return", "send"} /\ authLog[i].value \in ObtainedSecrets) =>
            MarkedBefore(i)

\* ------------------------------------------ stack reconciler, open remote
Posted(c) == \E i \in 1..Len(c.reqs) : c.reqs[i].method = "POST"
Creators(e, n) ==
    {r \in DOMAIN call : call[r].op = "deploy" /\ call[r].endpointId = e /\ call[r].name = n
                         /\ Posted(call[r])}

\* C33: a deployStack call that returned through the update branch sent its
\* PUT to the id of the stack findStackByName found and reports that id,
\* whatever body the 2xx answer to the PUT carried.
C33_UpdateReportsExistingId ==
    \A r \in DOMAIN call :
        LET c == call[r] IN
        (c.op = "deploy" /\ c.pc = "done" /\ c.result.status = "updated") =>
            /\ c.reqs = <<Req("PUT", c.existing.Id, c.endpointId)>>
            /\ c.result.stackId = c.existing.Id

\* C38: when no stack (N, E) exists at the start, at most one of the runs
\* that execute deployStack for (E, N) has sent a POST.
C38_AtMostOneCreate ==
    \A e \in Endpoints, n \in Names :
        {s \in initial : s.Name = n /\ s.EndpointId = e} = {} =>
            Cardinality(Creators(e, n)) <= 1

\* ------------------------------------------------- registry matching claim
\* The registries of the remote, all of them listed, whose URL is the given
\* url or "https://" + url.
UrlHits(c) == {r \in registries : r.URL = c.url \/ r.URL = <<"https://">> \o c.url}

\* C34: once the listing has arrived, ensureRegistry has sent a PUT exactly
\* when some listed registry has the given url or "https://" + url as its
\* URL, to the id of such a registry and with that registry's Name in the
\* body; otherwise it has sent a POST, and never both.
C34_MatchThenPut ==
    regCall.pc \in {"put", "post"} =>
        /\ (regCall.pc = "put") <=> (UrlHits(regCall) # {})
        /\ regCall.pc = "put" =>
               \E hit \in UrlHits(regCall) :
                   /\ regCall.reqs = <<RegReq("GET", 0), RegReq("PUT", hit.Id)>>
                   /\ regCall.body = RegBody(hit.Name, regCall.url)
        /\ regCall.pc = "post" =>
               /\ regCall.reqs = <<RegReq("GET", 0), RegReq("POST", 0)>>
               /\ regCall.body.Name = regCall.url \o <<" (auto-configured by CI)">>

\* ghcr.io was given, a registry made by hand is listed under
\* https://ghcr.io, and the PUT carries its Name.
C34_Witness ==
    /\ regCall.pc = "put"
    /\ regCall.url = <<"ghcr.io">>
    /\ regCall.existing.URL = <<"https://", "ghcr.io">>
    /\ regCall.body.Name = ManualName


\* ---------------------------------------------------------- client claims
Answered == clientPc \in {"returned", "thrown"} /\ clientOut.kind # "Rejected"
OutsideSuccess == clientResp.statusCode = NoStatus \/ clientResp.statusCode < 200
                  \/ clientResp.statusCode >= 300

\* C35: for get, post, put and delete a response whose status code is
\* outside [200, 300) or missing makes the method throw an API error and
\* never return; a 2xx response to get, post or put whose body is not valid
\* JSON makes the method throw too; delete on a 2xx response returns no
\* value and never reads the body.
C35_Non2xxAlwaysThrows ==
    Answered =>
        /\ OutsideSuccess => clientPc = "thrown" /\ clientOut.kind = "ApiError"
        /\ (~OutsideSuccess /\ clientReq # "DELETE" /\ clientResp.body \in InvalidBodies)
               => clientPc = "thrown" /\ clientOut.kind = "ParseError"
        /\ (~OutsideSuccess /\ clientReq # "DELETE" /\ clientResp.body \in ValidBodies)
               => clientPc = "returned" /\ clientOut.kind = "value"
        /\ (~OutsideSuccess /\ clientReq = "DELETE")
               => clientPc = "returned" /\ clientOut = [kind |-> "void"] /\ ~bodyRead
\* delete threw on a response without a status code.
C35_Witness ==
    /\ clientReq = "DELETE"
    /\ clientResp.statusCode = NoStatus
    /\ clientPc = "thrown"
    /\ clientOut.kind = "ApiError" /\ clientOut.statusCode = 0

\* ------------------------------------------- env parser claims, continued
FirstDeclarations ==
    {k \in Declarations : \A j \in Declarations : j < k => KeyAt(j) # KeyAt(k)}
\* The value of the last declaration of the key declared on line k.
LastValueOf(k) ==
    ValueAt(CHOOSE j \in LastDeclarations : KeyAt(j) = KeyAt(k))
\* Each key at the place of its first declaration, with its last value.
OverwriteInPlace ==
    [n \in 1..Cardinality(FirstDeclarations) |->
        StackEnvVar(KeyAt(Nth(FirstDeclarations, n)), LastValueOf(Nth(FirstDeclarations, n)))]
\* The declarations of lines 1..k taken in order, each one removing the
\* entry its key had and going to the end of the list.
RECURSIVE RemoveThenAppend(_)
RemoveThenAppend(k) ==
    IF k = 0 THEN <<>>
    ELSE IF k \notin Declarations THEN RemoveThenAppend(k - 1)
    ELSE LET NotThisKey(v) == v.name # KeyAt(k)
         IN  Append(SelectSeq(RemoveThenAppend(k - 1), NotThisKey),
                    StackEnvVar(KeyAt(k), ValueAt(k)))

\* C36 as stated: the output of parseEnvVars is the list that keeps each key
\* at the position of its first declaration and gives it the value of its
\* last declaration.
C36_FirstPositionKept ==
    (ParserOver /\ envOut.kind = "returned") => envOut.value = OverwriteInPlace

\* C36: the output of parseEnvVars is the list obtained by taking the
\* declarations in order, each one removing the entry its key had and going
\* to the end: the last value wins and a key declared again takes the
\* position of its last declaration.
C36_RedeclaredKeyMovesLast ==
    (ParserOver /\ envOut.kind = "returned") => envOut.value = RemoveThenAppend(Len(envLinesIn))
\* B=2, A=1, B = 3 was parsed to [A=1, B=3].
C36_Witness ==
    /\ ParserOver
    /\ envLinesIn = <<(<<"B", "=", "2">>), (<<"A", "=", "1">>),
                      (<<" ", "B", " ", "=", " ", "3", " ">>)>>
    /\ envOut = Returned(<<StackEnvVar(<<"A">>, <<"1">>), StackEnvVar(<<"B">>, <<"3">>)>>)

\* ------------------------------------------------- retry claims, continued
\* C37: a rejection of the operation with a value that is no Error reaches
\* the observer and the caller of retry only as an Error made from that
\* value: every error the observer was given and the error retry throws
\* are Errors, each carrying the value of the attempt it stands for; and
\* such a rejection is followed by a sleep and a new attempt when attempts
\* are left, by the throw when none is.
C37_NonErrorNormalized ==
    /\ lastError.kind = "Error"
    /\ \A n \in 1..Len(observed) :
           /\ observed[n].error.kind = "Error"
           /\ observed[n].error.of = fnLog[observed[n].attempt].of
    /\ rpc = "thrown" =>
           /\ outcome.kind = "Error"
           /\ fnLog # <<>> => outcome.of = fnLog[Len(fnLog)].of
    /\ \A i \in 1..Len(fnLog) :
           fnLog[i].kind = "string" =>
               IF i < opts.maxAttempts
               THEN /\ Len(slept) >= i
                    /\ opts.onRetry => Len(observed) >= i
                    /\ i < Len(fnLog) \/ rpc \in {"sleep", "invoke"}
               ELSE rpc = "thrown" /\ i = Len(fnLog)
\* A rejection with a string was observed and retried, and the last attempt
\* was rejected with a string too.
C37_Witness ==
    /\ rpc = "thrown"
    /\ opts.onRetry
    /\ Len(fnLog) >= 2
    /\ fnLog[1] = RejectedOther(1)
    /\ observed[1] = [attempt |-> 1, error |-> RejectedError(1)]
    /\ fnLog[Len(fnLog)] = RejectedOther(Len(fnLog))
    /\ outcome = RejectedError(Len(fnLog))

\* ----------------------------------------- stack reconciler claims, the run
MethodsOf(action) == IF action = "deploy" THEN {"POST", "PUT"} ELSE {"DELETE"}
ListingThrows == call[1].pc = "list" /\ call[1].pc' = "failed"

\* C39: when the listing request of deployStack or removeStack fails, the
\* call throws having sent no POST, PUT or DELETE and the remote stacks are
\* what they were; a call that threw sends nothing afterwards and the run
\* does not end well; every mutating request of a run with action delete is
\* a DELETE and every one of a run with action deploy is a POST or a PUT.
C39_NoMutationOffBranch ==
    /\ [](\A i \in 1..Len(call[1].reqs) : call[1].reqs[i].method \in MethodsOf(cfg.action))
    /\ [](call[1].pc = "failed" => mainPc \in {"reconciling", "failed"})
    /\ [][ListingThrows => (call[1].reqs' = <<>> /\ stacks' = stacks /\ results' = results)]_vars
    /\ [][call[1].pc = "failed" => (call[1]' = call[1] /\ stacks' = stacks)]_vars
\* A run with action delete whose listing failed: the stack it was to remove
\* is still on the remote and no request but the listing was sent.
C39_Witness ==
    /\ cfg # NoConfig
    /\ cfg.action = "delete"
    /\ mainPc = "failed"
    /\ call[1].pc = "failed" /\ call[1].reqs = <<>>
    /\ \E s \in stacks : Matches(s, cfg.stackName, cfg.endpointId)
====
